---- MODULE Spec2Model ----
(***************************************************************************)
(* Model of the identity/session synchronisation engine of CoreRag:        *)
(* AuthProvider, and the client helpers checkEmailExists and callRagBrain  *)
(* (src/src/contexts/AuthContext.jsx).                                     *)
(*                                                                         *)
(* One TLA+ step is one JavaScript task or microtask: the synchronous part *)
(* of a handler up to its next await.  React 18 (createRoot, main.jsx)     *)
(* batches the setState calls of one synchronous run, so the state after   *)
(* a step is a snapshot the consumers can be rendered with.  The           *)
(* continuation of a caller that awaited loadUserProfile runs as a         *)
(* microtask: while one is queued (micro # <<>>) nothing else runs, and    *)
(* the state in between is not rendered.                                   *)
(*                                                                         *)
(* profileLoadedRef is written by the code and never read: it is not a     *)
(* variable of the model.                                                  *)
(***************************************************************************)
EXTENDS Integers, Sequences, FiniteSets, Bags, TLC

\* --------------------------------------------------------------------------
\* Bounds of the model
\* --------------------------------------------------------------------------
MaxTimers == 2      \* pending settling timers
MaxLoads == 2       \* loadUserProfile invocations in flight
MaxSignUps == 2     \* signUp invocations suspended at an await
MaxSignOuts == 1    \* signOut invocations in flight
MaxTunable == 3     \* the largest value of a tunable of callRagBrain
MaxPending == 1     \* invocations of signIn, signInWithGoogle, resetPassword and
                    \* updatePassword suspended at their provider call
MaxVerticals == 2   \* the longest list the verticals query answers

\* --------------------------------------------------------------------------
\* Values
\* --------------------------------------------------------------------------
Null == "null"                 \* a null string or id
Absent == [absent |-> TRUE]    \* a null object (session, profile, organization)

Users == {"A", "B"}
Tokens == {"t1"}
OrgIds == {"O1"}

\* a provider session always carries its user
Sessions == [user : Users, tok : Tokens]

\* rows of the profiles collection: the row of user u has id u.  User A
\* belongs to organization O1 and has completed onboarding, user B has no
\* organization and has not.
DefaultProfiles ==
  [u \in Users |->
     IF u = "A"
     THEN [id |-> u, org_id |-> "O1", business_role |-> "provider",
           app_role |-> "org_admin"]
     ELSE [id |-> u, org_id |-> Null, business_role |-> Null,
           app_role |-> "user"]]

\* the rows user u can have in the store: with or without a business role
\* (null, the empty string, a role), with each application role
StoreRows(u) ==
  [id : {u}, org_id : {DefaultProfiles[u].org_id},
   business_role : {Null, "", "client"},
   app_role : {"user", "org_admin", "super_admin"}]

\* the contents the profiles collection can have
StoreTables == {t \in [Users -> UNION {StoreRows(u) : u \in Users}] :
                  \A u \in Users : t[u] \in StoreRows(u)}

\* rows of the organizations collection
OrgRow(oid) == [id |-> oid]

\* the callers of loadUserProfile: initSession, the settling timer,
\* refreshProfile, and refreshProfile awaited by the Onboarding page
Callers == {"init", "timer", "refresh", "onboarding"}

\* the delay of every settling timer (ms): equal delays fire in creation order
SETTLING_DELAY == 1000

VARIABLES
  user, session, profile, organization, loading, error,   \* useState
  loadingProfileRef, signingUpRef,      \* useRef
  mounted,          \* the effect's liveness marker
  initPc,           \* initSession: "probe" (getSession pending), "load" (awaiting the loader), "done"
  timers,           \* pending setTimeout callbacks (equal delays: FIFO), each a user id
  loads,            \* loadUserProfile invocations suspended at an await (a bag)
  micro,            \* queued continuations of callers that awaited loadUserProfile
  signups,          \* signUp invocations suspended at an await: pc is "check" (the
                    \* pre-check procedure is pending) or "create" (the provider
                    \* call is), answer what the procedure answered, calls the
                    \* provider calls made so far
  signouts,         \* number of signOut invocations suspended at the provider call
  rag,              \* the callRagBrain invocation followed: suspended at an await
                    \* (pc "session", "fetch", "json") or returned (pc "done", with
                    \* the { data, error } it returned); invocations share no state
  pending,          \* the invocations of signIn, signInWithGoogle, resetPassword and
                    \* updatePassword suspended at their provider call, by name
  profiles,         \* the profiles collection of the store: the row of each user
  wizard,           \* the Onboarding page: the route shown (at), its useState values
                    \* (selectedRole, step, error), where handleComplete is suspended
                    \* (pc "rpc", "refresh"), the user its refreshProfile closure holds,
                    \* and whether completeOnboarding has succeeded (completed)
  vertical,         \* the VerticalProvider: its useState values, the position of
                    \* fetchVerticals (pc), the currentVertical its effect closed
                    \* over (captured) and the localStorage entry (stored)
  ret,              \* what the last signUp call returned to its caller: { data, error },
                    \* and the provider calls that invocation made
  hist              \* history: lastEvent is "SIGNED_IN" or "SIGNED_OUT" while that event
                    \* is the last step that stored a session (or none), signedIn the
                    \* principals of the SIGNED_IN events so far

snapshot == <<user, session, profile, organization, loading, error>>
refs == <<loadingProfileRef, signingUpRef>>
vars == <<user, session, profile, organization, loading, error,
          loadingProfileRef, signingUpRef, mounted,
          initPc, timers, loads, micro, signups, signouts, rag, profiles, wizard, vertical, pending, ret,
          hist>>

\* the variables of AuthProvider
engine == <<user, session, profile, organization, loading, error,
            loadingProfileRef, signingUpRef, mounted,
            initPc, timers, loads, micro, signups, signouts, profiles, wizard, vertical, pending, ret,
            hist>>

NoRet == [op |-> "none", data |-> Absent, error |-> Absent, calls |-> <<>>]

\* the Onboarding page as it mounts
NoVertical == [pc |-> "unmounted", currentVertical |-> Null, availableVerticals |-> <<>>,
               loading |-> TRUE, error |-> Null, captured |-> Null, stored |-> Null,
               loaded |-> FALSE]

NoWizard ==
  [at |-> "/onboarding", selectedRole |-> Null, step |-> 1, pc |-> "idle",
   user |-> Null, completed |-> FALSE, error |-> ""]

\* no request built, no response received
NoRequest ==
  [query |-> <<>>, vertical_id |-> <<>>, match_threshold |-> 0, match_count |-> 0,
   token |-> Null]
NoResponse == [status |-> 0, body |-> [kind |-> "none"]]

\* callRagBrain has not been called
NoInvocation ==
  [pc |-> "idle", query |-> <<>>, verticalId |-> <<>>, options |-> <<>>,
   request |-> NoRequest, response |-> NoResponse, calls |-> <<>>,
   data |-> Absent, error |-> Absent]

InitProvider ==
  /\ user = Null /\ session = Absent /\ profile = Absent /\ organization = Absent
  /\ loading = TRUE /\ error = Null
  /\ loadingProfileRef = FALSE /\ signingUpRef = FALSE
  /\ mounted = TRUE
  /\ initPc = "probe"
  /\ timers = <<>> /\ loads = EmptyBag /\ micro = <<>> /\ signups = <<>> /\ signouts = 0
  /\ wizard = NoWizard
  /\ vertical = NoVertical
  /\ pending = <<>>
  /\ ret = NoRet
  /\ rag = NoInvocation
  /\ hist = [lastEvent |-> "NONE", signedIn |-> {}]

\* the provider is mounted over the default store
Init == InitProvider /\ profiles = DefaultProfiles

\* the provider is mounted over a store with any contents
InitStore == InitProvider /\ profiles \in StoreTables

\* --------------------------------------------------------------------------
\* Helpers
\* --------------------------------------------------------------------------
\* what .from('profiles').select('*').eq('id', u).single() can answer
ProfileRows(u) == {profiles[u]}

RemoveAt(s, i) == [j \in 1..(Len(s) - 1) |-> IF j < i THEN s[j] ELSE s[j + 1]]

\* newSession?.user ?? null
UserOf(s) == IF s = Absent THEN Null ELSE s.user

\* nothing is running between two tasks
Idle == micro = <<>>

\* --------------------------------------------------------------------------
\* loadUserProfile (AuthContext.jsx 26-71)
\* --------------------------------------------------------------------------

\* loadUserProfile without its guard test
LoadUserProfile_NoGuard(guard, userId, caller) ==
  /\ loadingProfileRef' = TRUE
  /\ loads' = loads (+) SetToBag({[caller |-> caller, uid |-> userId,
                                     pc |-> "profile", data |-> Absent]})
  /\ micro' = micro

\* The synchronous head of loadUserProfile(userId), called by caller when
\* loadingProfileRef.current is guard: the guard test, and the fetch to the
\* profiles collection it issues.  A call rejected by the guard returns at
\* once and its caller resumes in a microtask.
LoadUserProfile(guard, userId, caller) ==
  IF guard
  THEN /\ micro' = Append(micro, caller)
       /\ UNCHANGED <<loads, loadingProfileRef>>
  ELSE /\ loadingProfileRef' = TRUE
       /\ loads' = loads (+) SetToBag({[caller |-> caller, uid |-> userId,
                                          pc |-> "profile", data |-> Absent]})
       /\ micro' = micro

\* the end of a load without the finally block
FinishLoad_KeepsGuard(l) ==
  /\ loadingProfileRef' = loadingProfileRef
  /\ loads' = loads (-) SetToBag({l})
  /\ micro' = Append(micro, l.caller)

\* the finally block, and the resumption of the caller that awaited the load
FinishLoad(l) ==
  /\ loadingProfileRef' = FALSE
  /\ loads' = loads (-) SetToBag({l})
  /\ micro' = Append(micro, l.caller)

\* the not-found branch without its setOrganization(null)
ProfileNotFound_KeepsOrganization(l) ==
  /\ Idle /\ BagIn(l, loads) /\ l.pc = "profile"
  /\ profile' = Absent
  /\ FinishLoad(l)
  /\ UNCHANGED <<rag, vertical, wizard, profiles, pending, user, session, organization, loading, error, signingUpRef,
                 mounted, initPc, timers, signups, signouts, ret, hist>>

\* the profiles fetch answers PGRST116 (no row)
ProfileNotFound(l) ==
  /\ Idle /\ BagIn(l, loads) /\ l.pc = "profile"
  /\ profile' = Absent
  /\ organization' = Absent
  /\ FinishLoad(l)
  /\ UNCHANGED <<rag, vertical, wizard, profiles, pending, user, session, loading, error, signingUpRef, mounted, initPc,
                 timers, signups, signouts, ret, hist>>

\* the profiles fetch fails with another error: throw, catch, finally
ProfileFailed(l) ==
  /\ Idle /\ BagIn(l, loads) /\ l.pc = "profile"
  /\ error' = "profileError"
  /\ FinishLoad(l)
  /\ UNCHANGED <<rag, vertical, wizard, profiles, pending, user, session, profile, organization, loading, signingUpRef,
                 mounted, initPc, timers, signups, signouts, ret, hist>>

\* the profiles fetch answers with the row of the requested user
ProfileFound(l, row) ==
  /\ Idle /\ BagIn(l, loads) /\ l.pc = "profile"
  /\ row \in ProfileRows(l.uid)
  /\ profile' = row
  /\ IF row.org_id # Null
     THEN /\ loads' = (loads (-) SetToBag({l}))
                      (+) SetToBag({[l EXCEPT !.pc = "org", !.data = row]})
          /\ UNCHANGED <<loadingProfileRef, micro>>
     ELSE FinishLoad(l)
  /\ UNCHANGED <<rag, vertical, wizard, profiles, pending, user, session, organization, loading, error, signingUpRef,
                 mounted, initPc, timers, signups, signouts, ret, hist>>

\* the organizations fetch answers with the row profileData.org_id names
OrgFound(l) ==
  /\ Idle /\ BagIn(l, loads) /\ l.pc = "org"
  /\ organization' = OrgRow(l.data.org_id)
  /\ FinishLoad(l)
  /\ UNCHANGED <<rag, vertical, wizard, profiles, pending, user, session, profile, loading, error, signingUpRef, mounted,
                 initPc, timers, signups, signouts, ret, hist>>

\* the organizations fetch answers with an error: ignored
OrgFailed(l) ==
  /\ Idle /\ BagIn(l, loads) /\ l.pc = "org"
  /\ FinishLoad(l)
  /\ UNCHANGED <<rag, vertical, wizard, profiles, pending, user, session, profile, organization, loading, error,
                 signingUpRef, mounted, initPc, timers, signups, signouts, ret, hist>>

\* the resumption of the callers with an initSession that has no finally block
Resume_InitKeepsLoading ==
  /\ micro # <<>>
  /\ micro' = Tail(micro)
  /\ CASE Head(micro) = "init" ->
            /\ loading' = loading
            /\ initPc' = "done"
            /\ ret' = ret
       [] Head(micro) = "timer" ->
            /\ loading' = FALSE
            /\ UNCHANGED <<initPc, ret>>
       [] Head(micro) = "refresh" ->
            /\ UNCHANGED <<loading, initPc, ret>>
       [] Head(micro) = "onboarding" ->
            /\ UNCHANGED <<loading, initPc, ret>>
  /\ wizard' = IF Head(micro) = "onboarding"
               THEN [wizard EXCEPT !.at = "/dashboard", !.pc = "idle"]
               ELSE wizard
  /\ UNCHANGED <<rag, vertical, profiles, pending, user, session, profile, organization, error, loadingProfileRef, signingUpRef, mounted, timers, loads,
                 signups, signouts, hist>>

\* the caller of loadUserProfile resumes after its await
Resume ==
  /\ micro # <<>>
  /\ micro' = Tail(micro)
  /\ CASE Head(micro) = "init" ->
            \* initSession's finally (91)
            /\ loading' = IF mounted THEN FALSE ELSE loading
            /\ initPc' = "done"
            /\ ret' = ret
       [] Head(micro) = "timer" ->
            \* the timer callback's setLoading(false) (111)
            /\ loading' = FALSE
            /\ UNCHANGED <<initPc, ret>>
       [] Head(micro) = "refresh" ->
            \* refreshProfile returns to its caller
            /\ UNCHANGED <<loading, initPc, ret>>
       [] Head(micro) = "onboarding" ->
            \* refreshProfile returns to handleComplete of the Onboarding page
            /\ UNCHANGED <<loading, initPc, ret>>
  \* handleComplete goes on after await refreshProfile(): navigate('/dashboard'),
  \* then the page's setLoading(false)
  /\ wizard' = IF Head(micro) = "onboarding"
               THEN [wizard EXCEPT !.at = "/dashboard", !.pc = "idle"]
               ELSE wizard
  /\ UNCHANGED <<rag, vertical, profiles, pending, user, session, profile, organization, error, loadingProfileRef, signingUpRef, mounted, timers, loads,
                 signups, signouts, hist>>

\* --------------------------------------------------------------------------
\* The effect: initSession, the auth-event handler, the cleanup (73-130)
\* --------------------------------------------------------------------------

\* supabase.auth.getSession() answers with initialSession (a session or null)
InitProbeReturns(initialSession) ==
  /\ Idle /\ initPc = "probe"
  /\ initialSession \in Sessions \cup {Absent}
  /\ IF ~mounted
     THEN /\ initPc' = "done"
          /\ UNCHANGED <<user, session, loading, loadingProfileRef, loads, micro, hist>>
     ELSE /\ session' = initialSession
          /\ user' = UserOf(initialSession)
          /\ hist' = [hist EXCEPT !.lastEvent = "OTHER"]
          /\ IF initialSession # Absent
             THEN /\ loadingProfileRef \/ BagCardinality(loads) < MaxLoads
                  /\ LoadUserProfile(loadingProfileRef, initialSession.user, "init")
                  /\ initPc' = "load"
                  /\ loading' = loading
             ELSE /\ loading' = FALSE
                  /\ initPc' = "done"
                  /\ UNCHANGED <<loadingProfileRef, loads, micro>>
  /\ UNCHANGED <<rag, vertical, wizard, profiles, pending, profile, organization, error, signingUpRef,
                 mounted, timers, signups, signouts, ret>>

\* supabase.auth.getSession() rejects
InitProbeThrows ==
  /\ Idle /\ initPc = "probe"
  /\ initPc' = "done"
  /\ error' = IF mounted THEN "probeError" ELSE error
  /\ loading' = IF mounted THEN FALSE ELSE loading
  /\ UNCHANGED <<rag, vertical, wizard, profiles, pending, user, session, profile, organization, loadingProfileRef, signingUpRef, mounted, timers, loads, micro,
                 signups, signouts, ret, hist>>

\* the handler with a SIGNED_OUT branch that forgets setOrganization(null)
OnAuthStateChange_KeepsOrganization(event, newSession) ==
  /\ Idle /\ mounted
  /\ session' = newSession
  /\ user' = UserOf(newSession)
  /\ IF event = "SIGNED_IN" /\ newSession # Absent
     THEN /\ Len(timers) < MaxTimers
          /\ loadingProfileRef' = FALSE
          /\ timers' = Append(timers, newSession.user)
          /\ hist' = [lastEvent |-> "SIGNED_IN",
                      signedIn |-> hist.signedIn \cup {newSession.user}]
          /\ UNCHANGED <<profile, organization, loading>>
     ELSE IF event = "SIGNED_OUT"
     THEN /\ profile' = Absent
          /\ organization' = organization
          /\ loadingProfileRef' = FALSE
          /\ loading' = FALSE
          /\ hist' = [hist EXCEPT !.lastEvent = "SIGNED_OUT"]
          /\ UNCHANGED timers
     ELSE /\ loading' = FALSE
          /\ hist' = [hist EXCEPT !.lastEvent = "OTHER"]
          /\ UNCHANGED <<profile, organization, loadingProfileRef, timers>>
  /\ UNCHANGED <<rag, vertical, wizard, profiles, pending, error, signingUpRef, mounted, initPc, loads, micro, signups,
                 signouts, ret>>

\* the handler with an else branch that also resets the profile-fetch guard
OnAuthStateChange_OtherResetsGuard(event, newSession) ==
  /\ Idle /\ mounted
  /\ session' = newSession
  /\ user' = UserOf(newSession)
  /\ IF event = "SIGNED_IN" /\ newSession # Absent
     THEN /\ Len(timers) < MaxTimers
          /\ loadingProfileRef' = FALSE
          /\ timers' = Append(timers, newSession.user)
          /\ hist' = [lastEvent |-> "SIGNED_IN",
                      signedIn |-> hist.signedIn \cup {newSession.user}]
          /\ UNCHANGED <<profile, organization, loading>>
     ELSE IF event = "SIGNED_OUT"
     THEN /\ profile' = Absent
          /\ organization' = Absent
          /\ loadingProfileRef' = FALSE
          /\ loading' = FALSE
          /\ hist' = [hist EXCEPT !.lastEvent = "SIGNED_OUT"]
          /\ UNCHANGED timers
     ELSE /\ loading' = FALSE
          /\ loadingProfileRef' = FALSE
          /\ hist' = [hist EXCEPT !.lastEvent = "OTHER"]
          /\ UNCHANGED <<profile, organization, timers>>
  /\ UNCHANGED <<rag, vertical, wizard, profiles, pending, error, signingUpRef, mounted, initPc, loads, micro, signups,
                 signouts, ret>>

\* the handler with SIGNED_IN and SIGNED_OUT branches that also reset the
\* signup flag
OnAuthStateChange_ResetsSignUpFlag(event, newSession) ==
  /\ Idle /\ mounted
  /\ session' = newSession
  /\ user' = UserOf(newSession)
  /\ IF event = "SIGNED_IN" /\ newSession # Absent
     THEN /\ Len(timers) < MaxTimers
          /\ loadingProfileRef' = FALSE
          /\ signingUpRef' = FALSE
          /\ timers' = Append(timers, newSession.user)
          /\ hist' = [lastEvent |-> "SIGNED_IN",
                      signedIn |-> hist.signedIn \cup {newSession.user}]
          /\ UNCHANGED <<profile, organization, loading>>
     ELSE IF event = "SIGNED_OUT"
     THEN /\ profile' = Absent
          /\ organization' = Absent
          /\ loadingProfileRef' = FALSE
          /\ signingUpRef' = FALSE
          /\ loading' = FALSE
          /\ hist' = [hist EXCEPT !.lastEvent = "SIGNED_OUT"]
          /\ UNCHANGED timers
     ELSE /\ loading' = FALSE
          /\ hist' = [hist EXCEPT !.lastEvent = "OTHER"]
          /\ UNCHANGED <<profile, organization, loadingProfileRef, signingUpRef, timers>>
  /\ UNCHANGED <<rag, vertical, wizard, profiles, pending, error, mounted, initPc, loads, micro, signups,
                 signouts, ret>>

\* the subscribed handler processes one provider notification
OnAuthStateChange(event, newSession) ==
  /\ Idle /\ mounted
  /\ session' = newSession
  /\ user' = UserOf(newSession)
  /\ IF event = "SIGNED_IN" /\ newSession # Absent
     THEN /\ Len(timers) < MaxTimers
          /\ loadingProfileRef' = FALSE
          /\ timers' = Append(timers, newSession.user)
          /\ hist' = [lastEvent |-> "SIGNED_IN",
                      signedIn |-> hist.signedIn \cup {newSession.user}]
          /\ UNCHANGED <<profile, organization, loading>>
     ELSE IF event = "SIGNED_OUT"
     THEN /\ profile' = Absent
          /\ organization' = Absent
          /\ loadingProfileRef' = FALSE
          /\ loading' = FALSE
          /\ hist' = [hist EXCEPT !.lastEvent = "SIGNED_OUT"]
          /\ UNCHANGED timers
     ELSE /\ loading' = FALSE
          /\ hist' = [hist EXCEPT !.lastEvent = "OTHER"]
          /\ UNCHANGED <<profile, organization, loadingProfileRef, timers>>
  /\ UNCHANGED <<rag, vertical, wizard, profiles, pending, error, signingUpRef, mounted, initPc, loads, micro, signups,
                 signouts, ret>>

\* the notifications the provider delivers: SIGNED_OUT carries no session,
\* SIGNED_IN and TOKEN_REFRESHED carry the current session, INITIAL_SESSION
\* carries it or none
SignedInEvent(newSession) ==
  /\ newSession \in Sessions
  /\ OnAuthStateChange("SIGNED_IN", newSession)

SignedOutEvent == OnAuthStateChange("SIGNED_OUT", Absent)

OtherEvent(event, newSession) ==
  /\ \/ event = "TOKEN_REFRESHED" /\ newSession \in Sessions
     \/ event = "INITIAL_SESSION" /\ newSession \in Sessions \cup {Absent}
  /\ OnAuthStateChange(event, newSession)

\* the oldest settling timer fires (108-113)
TimerFires ==
  /\ Idle /\ timers # <<>>
  /\ timers' = Tail(timers)
  /\ IF mounted
     THEN /\ loadingProfileRef \/ BagCardinality(loads) < MaxLoads
          /\ LoadUserProfile(loadingProfileRef, Head(timers), "timer")
     ELSE UNCHANGED <<loadingProfileRef, loads, micro>>
  /\ UNCHANGED <<rag, vertical, wizard, profiles, pending, user, session, profile, organization, loading, error,
                 signingUpRef, mounted, initPc, signups,
                 signouts, ret, hist>>

\* the effect's cleanup: the engine is disposed.  The model follows the steps
\* that were pending at that moment; no operation is started afterwards.
Dispose ==
  /\ Idle /\ mounted
  /\ mounted' = FALSE
  /\ UNCHANGED <<rag, vertical, wizard, profiles, pending, user, session, profile, organization, loading, error,
                 loadingProfileRef, signingUpRef, initPc,
                 timers, loads, micro, signups, signouts, ret, hist>>

\* --------------------------------------------------------------------------
\* refreshProfile (288-294)
\* --------------------------------------------------------------------------
\* refreshProfile without the two assignments that reset the flags
RefreshProfile_KeepsGuard ==
  /\ Idle /\ mounted
  /\ IF user # Null
     THEN /\ BagCardinality(loads) < MaxLoads
          /\ LoadUserProfile(loadingProfileRef, user, "refresh")
          /\ ret' = ret
     ELSE UNCHANGED <<loadingProfileRef, loads, micro, ret>>
  /\ UNCHANGED <<rag, vertical, wizard, profiles, pending, user, session, profile, organization, loading, error,
                 signingUpRef, mounted, initPc, timers, signups, signouts, hist>>

RefreshProfile ==
  /\ Idle /\ mounted
  /\ IF user # Null
     THEN /\ BagCardinality(loads) < MaxLoads
          \* loadingProfileRef.current = false, then the call
          /\ LoadUserProfile(FALSE, user, "refresh")
          /\ ret' = ret
     ELSE UNCHANGED <<loadingProfileRef, loads, micro, ret>>
  /\ UNCHANGED <<rag, vertical, wizard, profiles, pending, user, session, profile, organization, loading, error,
                 signingUpRef, mounted, initPc, timers, signups, signouts, hist>>


\* --------------------------------------------------------------------------
\* The context value (340-360): the flags derived at every render
\* --------------------------------------------------------------------------
\* !!v for a string or null
Truthy(v) == v # Null /\ v # ""

\* profile?.business_role, profile?.app_role: undefined is taken as null
BusinessRole == IF profile = Absent THEN Null ELSE profile.business_role
AppRole == IF profile = Absent THEN Null ELSE profile.app_role

isAuthenticated == session # Absent
\* isOnboarded computed from the presence of the profile alone
isOnboarded_AnyProfile == profile # Absent

isOnboarded == Truthy(BusinessRole)
isOrgAdmin == AppRole = "org_admin" \/ AppRole = "super_admin"
isSuperAdmin == AppRole = "super_admin"
hasProfile == profile # Absent

\* --------------------------------------------------------------------------
\* The route guards (ProtectedRoute, AdminRoute): what each renders for the
\* current context value
\* --------------------------------------------------------------------------
\* AdminRoute without its isOrgAdmin test
AdminRoute_NoAdminTest ==
  IF loading THEN "LoadingScreen"
  ELSE IF ~isAuthenticated THEN "/login"
  ELSE IF ~hasProfile THEN "ProfileErrorScreen"
  ELSE IF ~isOnboarded THEN "/onboarding"
  ELSE "children"

ProtectedRoute ==
  IF loading THEN "LoadingScreen"
  ELSE IF ~isAuthenticated THEN "/login"
  ELSE IF ~hasProfile THEN "ProfileErrorScreen"
  ELSE IF ~isOnboarded THEN "/onboarding"
  ELSE "children"

AdminRoute ==
  IF loading THEN "LoadingScreen"
  ELSE IF ~isAuthenticated THEN "/login"
  ELSE IF ~hasProfile THEN "ProfileErrorScreen"
  ELSE IF ~isOnboarded THEN "/onboarding"
  ELSE IF ~isOrgAdmin THEN "/dashboard"
  ELSE "children"

OnboardingRoute ==
  IF loading THEN "LoadingScreen"
  ELSE IF ~isAuthenticated THEN "/login"
  ELSE IF ~hasProfile THEN "ProfileErrorScreen"
  ELSE IF isOnboarded THEN "/dashboard"
  ELSE "children"

\* --------------------------------------------------------------------------
\* The Onboarding page (pages/Onboarding.jsx 54-95) and completeOnboarding
\* (399-407).  The bio is not modelled: handleSkip is handleComplete.
\* --------------------------------------------------------------------------
ROLES == {"provider", "client"}

SelectRoleMessage == "Veuillez selectionner un role pour continuer."
RetryMessage == "Une erreur est survenue. Veuillez reessayer."

\* the page is on screen: the location is /onboarding and OnboardingRoute
\* renders its children
WizardShown == Idle /\ mounted /\ wizard.at = "/onboarding" /\ OnboardingRoute = "children"

\* a click on a role card: setSelectedRole(role.id)
SelectRole(role) ==
  /\ WizardShown /\ wizard.step = 1
  /\ role \in ROLES
  /\ wizard' = [wizard EXCEPT !.selectedRole = role]
  /\ UNCHANGED <<rag, vertical, profiles, pending, user, session, profile, organization,
                 loading, error, loadingProfileRef, signingUpRef, mounted, initPc,
                 timers, loads, micro, signups, signouts, ret, hist>>

HandleNext ==
  /\ WizardShown /\ wizard.step = 1
  /\ wizard' = IF wizard.selectedRole = Null
               THEN [wizard EXCEPT !.error = SelectRoleMessage]
               ELSE [wizard EXCEPT !.error = "", !.step = 2]
  /\ UNCHANGED <<rag, vertical, profiles, pending, user, session, profile, organization,
                 loading, error, loadingProfileRef, signingUpRef, mounted, initPc,
                 timers, loads, micro, signups, signouts, ret, hist>>

\* the back button of step 2, disabled while handleComplete runs
HandleBack ==
  /\ WizardShown /\ wizard.step = 2 /\ wizard.pc = "idle"
  /\ wizard' = [wizard EXCEPT !.step = 1]
  /\ UNCHANGED <<rag, vertical, profiles, pending, user, session, profile, organization,
                 loading, error, loadingProfileRef, signingUpRef, mounted, initPc,
                 timers, loads, micro, signups, signouts, ret, hist>>

\* the call: the page's setLoading(true), setError(''), then the procedure
\* complete_onboarding is called.  refreshProfile is the function of the render
\* the click was handled in: it holds that render's user.
HandleComplete ==
  /\ WizardShown /\ wizard.step = 2 /\ wizard.pc = "idle"
  /\ wizard' = IF wizard.selectedRole = Null
               THEN wizard
               ELSE [wizard EXCEPT !.pc = "rpc", !.error = "", !.user = user]
  /\ UNCHANGED <<rag, vertical, profiles, pending, user, session, profile, organization,
                 loading, error, loadingProfileRef, signingUpRef, mounted, initPc,
                 timers, loads, micro, signups, signouts, ret, hist>>

\* the procedure answers.  On success the row of the caller carries the role
\* and refreshProfile is called: the flags are reset and the loader called for
\* the user the closure holds.  On an error completeOnboarding throws: the
\* catch block sets the page's error and the finally block lowers its loading.
CompleteOnboardingReturns(ok) ==
  /\ Idle /\ wizard.pc = "rpc"
  /\ ok \in BOOLEAN
  /\ IF ok
     THEN /\ profiles' = [profiles EXCEPT
                            ![wizard.user].business_role = wizard.selectedRole]
          /\ wizard' = [wizard EXCEPT !.pc = "refresh", !.completed = TRUE]
          /\ BagCardinality(loads) < MaxLoads
          /\ LoadUserProfile(FALSE, wizard.user, "onboarding")
     ELSE /\ wizard' = [wizard EXCEPT !.pc = "idle", !.error = RetryMessage]
          /\ UNCHANGED <<profiles, loadingProfileRef, loads, micro>>
  /\ UNCHANGED <<rag, vertical, pending, user, session, profile, organization, loading,
                 error, signingUpRef, mounted, initPc, timers, signups, signouts,
                 ret, hist>>

\* --------------------------------------------------------------------------
\* VerticalProvider (components/VerticalContext.jsx 36-147).  A vertical is
\* modelled by its id, a list of verticals by the sequence of their ids.
\* --------------------------------------------------------------------------
DEFAULT_VERTICAL == "audit"

DEFAULT_VERTICALS == <<"audit", "btp", "juridique", "rh">>

KnownVerticals == {"audit", "btp", "juridique", "rh"}

\* the ids the verticals table may hold
ActiveIds == {"audit", "btp", "rh"}

Range(seq) == {seq[i] : i \in DOMAIN seq}

\* the answers of the verticals query: lists without repetition
VerticalLists ==
  {l \in UNION {[1..n -> ActiveIds] : n \in 0..MaxVerticals} :
     \A i, j \in DOMAIN l : i # j => l[i] # l[j]}

\* the first render and its effect: currentVertical is read from localStorage
\* or is the default; without a client fetchVerticals returns at once,
\* otherwise the query is sent.  The effect holds the currentVertical of this
\* render.
MountVertical(stored, hasClient) ==
  /\ vertical.pc = "unmounted"
  /\ stored \in KnownVerticals \cup {Null}
  /\ hasClient \in BOOLEAN
  /\ LET cur == IF stored # Null THEN stored ELSE DEFAULT_VERTICAL IN
     vertical' = [pc |-> IF hasClient THEN "fetch" ELSE "done",
                  currentVertical |-> cur,
                  availableVerticals |-> DEFAULT_VERTICALS,
                  loading |-> hasClient, error |-> Null, captured |-> cur,
                  stored |-> stored, loaded |-> FALSE]
  /\ UNCHANGED <<rag, wizard, profiles, pending, user, session, profile, organization,
                 loading, error, loadingProfileRef, signingUpRef, mounted, initPc,
                 timers, loads, micro, signups, signouts, ret, hist>>

\* the query answers without an error: a non-empty list replaces
\* availableVerticals, and its first entry becomes the current vertical when
\* the list lacks the currentVertical the effect closed over
FetchVerticalsReturns(data) ==
  /\ vertical.pc = "fetch"
  /\ data \in VerticalLists
  /\ vertical' =
       IF Len(data) > 0
       THEN [vertical EXCEPT
               !.availableVerticals = data,
               !.currentVertical = IF vertical.captured \in Range(data)
                                   THEN vertical.currentVertical ELSE data[1],
               !.loaded = TRUE, !.loading = FALSE, !.pc = "done"]
       ELSE [vertical EXCEPT !.loading = FALSE, !.pc = "done"]
  /\ UNCHANGED <<rag, wizard, profiles, pending, user, session, profile, organization,
                 loading, error, loadingProfileRef, signingUpRef, mounted, initPc,
                 timers, loads, micro, signups, signouts, ret, hist>>

\* the query answers an error or throws
FetchVerticalsFails ==
  /\ vertical.pc = "fetch"
  /\ vertical' = [vertical EXCEPT !.error = "fetchError", !.loading = FALSE,
                                  !.pc = "done"]
  /\ UNCHANGED <<rag, wizard, profiles, pending, user, session, profile, organization,
                 loading, error, loadingProfileRef, signingUpRef, mounted, initPc,
                 timers, loads, micro, signups, signouts, ret, hist>>

\* setCurrentVertical (94-106): the state and the localStorage entry take the
\* id as it is given
SetCurrentVertical(verticalId) ==
  /\ vertical.pc # "unmounted"
  /\ verticalId \in KnownVerticals
  /\ vertical' = [vertical EXCEPT !.currentVertical = verticalId,
                                  !.stored = verticalId]
  /\ UNCHANGED <<rag, wizard, profiles, pending, user, session, profile, organization,
                 loading, error, loadingProfileRef, signingUpRef, mounted, initPc,
                 timers, loads, micro, signups, signouts, ret, hist>>

\* --------------------------------------------------------------------------
\* signUp (132-219) and checkEmailExists (409-423)
\* --------------------------------------------------------------------------
EmailExistsMessage ==
  "Un compte existe deja avec cet email. Veuillez vous connecter ou utiliser la reinitialisation de mot de passe."
InProgressMessage == "Une inscription est deja en cours."
UnexpectedMessage == "Une erreur inattendue s'est produite."

\* the email argument of signUp: empty, or an address
Emails == {"", "user@example.com"}

\* what rpc('check_email_exists') answers: data (the boolean true, the string
\* 'true', the number 1, false, null), an error, or a rejection
RpcAnswers == {"true", "'true'", "1", "false", "null", "error", "throws"}

\* checkEmailExists with a failing procedure reported as an existing email
CheckEmailExists_FailsClosed(email, answer) ==
  IF email = "" THEN FALSE
  ELSE answer \in {"true", "'true'", "1", "error", "throws"}

\* checkEmailExists(email), given the answer of the remote procedure:
\* data === true || data === 'true' || data === 1, false on error or rejection
CheckEmailExists(email, answer) ==
  IF email = "" THEN FALSE
  ELSE answer \in {"true", "'true'", "1"}

\* the messages of the errors supabase.auth.signUp answers with
ProviderMessages ==
  {"User already registered", "Already taken", "EMAIL EXISTS",
   "Phone registered", "Duplicate key", "Rate limit exceeded", ""}

\* error objects of the provider: status is 0 when the error carries none
\* (error.status || error.code || '' is then not a number)
ProviderErrors == [status : {0, 400, 422, 500}, message : ProviderMessages]

\* the messages of the exceptions a rejected provider call throws: "" when
\* the thrown value carries no message
ExceptionMessages == {"Failed to fetch", ""}

\* the characters of a message
Text(m) ==
  CASE m = "User already registered" ->
          <<"U", "s", "e", "r", " ", "a", "l", "r", "e", "a", "d", "y", " ",
          "r", "e", "g", "i", "s", "t", "e", "r", "e", "d">>
    [] m = "Already taken" ->
          <<"A", "l", "r", "e", "a", "d", "y", " ", "t", "a", "k", "e", "n">>
    [] m = "EMAIL EXISTS" ->
          <<"E", "M", "A", "I", "L", " ", "E", "X", "I", "S", "T", "S">>
    [] m = "Phone registered" ->
          <<"P", "h", "o", "n", "e", " ", "r", "e", "g", "i", "s", "t", "e",
          "r", "e", "d">>
    [] m = "Duplicate key" ->
          <<"D", "u", "p", "l", "i", "c", "a", "t", "e", " ", "k", "e", "y">>
    [] m = "Rate limit exceeded" ->
          <<"R", "a", "t", "e", " ", "l", "i", "m", "i", "t", " ", "e", "x",
          "c", "e", "e", "d", "e", "d">>
    [] m = "" ->
          <<>>

UpperCase ==
  <<"A", "B", "C", "D", "E", "F", "G", "H", "I", "J", "K", "L", "M", "N",
    "O", "P", "Q", "R", "S", "T", "U", "V", "W", "X", "Y", "Z">>
LowerCase ==
  <<"a", "b", "c", "d", "e", "f", "g", "h", "i", "j", "k", "l", "m", "n",
    "o", "p", "q", "r", "s", "t", "u", "v", "w", "x", "y", "z">>

\* String.prototype.toLowerCase
ToLowerCase(t) ==
  [k \in 1..Len(t) |->
     IF \E n \in 1..Len(UpperCase) : UpperCase[n] = t[k]
     THEN LowerCase[CHOOSE n \in 1..Len(UpperCase) : UpperCase[n] = t[k]]
     ELSE t[k]]

\* String.prototype.includes
Includes(t, w) ==
  \E k \in 0..(Len(t) - Len(w)) : SubSeq(t, k + 1, k + Len(w)) = w

\* the words looked for in the lowered message (180-183)
Keywords ==
  {<<"a", "l", "r", "e", "a", "d", "y">>,
   <<"e", "x", "i", "s", "t", "s">>,
   <<"r", "e", "g", "i", "s", "t", "e", "r", "e", "d">>,
   <<"d", "u", "p", "l", "i", "c", "a", "t", "e">>}

\* the provider phrasings compared as a whole (184-186)
KnownPhrasings ==
  {"User already registered", "Email already registered",
   "A user with this email already exists"}

\* the classification without its status test
IsEmailExists_ByTextOnly(e) ==
  LET errorLower == ToLowerCase(Text(e.message))
  IN \/ \E w \in Keywords : Includes(errorLower, w)
     \/ e.message \in KnownPhrasings

\* the classification with a word test that matches every message
IsEmailExists_AnyText(e) ==
  LET errorLower == ToLowerCase(Text(e.message))
  IN \/ e.status = 422
     \/ e.status = 400
     \/ \E w \in Keywords \cup {<<>>} : Includes(errorLower, w)
     \/ e.message \in KnownPhrasings

\* isEmailExists (172-186)
IsEmailExists(e) ==
  LET errorLower == ToLowerCase(Text(e.message))
  IN \/ e.status = 422
     \/ e.status = 400
     \/ \E w \in Keywords : Includes(errorLower, w)
     \/ e.message \in KnownPhrasings

\* the catch block reporting the thrown value's message as it is
CaughtMessage_Verbatim(err) == err.message

\* err?.message || 'Une erreur inattendue s'est produite.' (205)
CaughtMessage(err) ==
  IF err.message # "" THEN err.message ELSE UnexpectedMessage

\* how supabase.auth.signUp ends: it answers data, it answers an error, or it
\* rejects with an exception (error then holds the thrown value)
CreateOutcomes ==
  {[kind |-> "data", error |-> [status |-> 0, message |-> ""]]}
    \cup [kind : {"error"}, error : ProviderErrors]
    \cup [kind : {"throws"}, error : [status : {0}, message : ExceptionMessages]]

\* the error of the value signUp returns after the provider call (172-214)
CreateError(outcome) ==
  CASE outcome.kind = "data" -> Absent
    [] outcome.kind = "error" ->
         IF IsEmailExists(outcome.error)
         THEN [message |-> EmailExistsMessage, code |-> "EMAIL_EXISTS",
               originalError |-> outcome.error]
         ELSE outcome.error
    [] outcome.kind = "throws" ->
         [message |-> CaughtMessage(outcome.error), code |-> "UNKNOWN_ERROR"]

\* the value { data, error } signUp returns, with the provider calls the
\* invocation made
SignUpReturn(data, err, calls) ==
  [op |-> "signUp", data |-> data, error |-> err, calls |-> calls]

\* signUp without its guard test
SignUp_NoGuard(email) ==
  /\ Idle /\ mounted
  /\ email \in Emails
  /\ Len(signups) < MaxSignUps
  /\ signingUpRef' = TRUE
  /\ loading' = TRUE
  /\ signups' = Append(signups,
                  IF email = ""
                  THEN [pc |-> "create", email |-> email, answer |-> "none",
                        calls |-> <<"auth.signUp">>]
                  ELSE [pc |-> "check", email |-> email, answer |-> "none",
                        calls |-> <<"check_email_exists">>])
  /\ ret' = ret
  /\ UNCHANGED <<rag, vertical, wizard, profiles, pending, user, session, profile, organization, error,
                 loadingProfileRef, mounted, initPc, timers, loads, micro,
                 signouts, hist>>

\* signUp whose guard branch also clears the flag it tested
SignUp_RejectReleasesFlag(email) ==
  /\ Idle /\ mounted
  /\ email \in Emails
  /\ IF signingUpRef
     THEN /\ ret' = SignUpReturn(Absent, [message |-> InProgressMessage], <<>>)
          /\ signingUpRef' = FALSE
          /\ UNCHANGED <<loading, signups>>
     ELSE /\ Len(signups) < MaxSignUps
          /\ signingUpRef' = TRUE
          /\ loading' = TRUE
          /\ signups' = Append(signups,
                          IF email = ""
                          THEN [pc |-> "create", email |-> email,
                                answer |-> "none", calls |-> <<"auth.signUp">>]
                          ELSE [pc |-> "check", email |-> email,
                                answer |-> "none",
                                calls |-> <<"check_email_exists">>])
          /\ ret' = ret
  /\ UNCHANGED <<rag, vertical, wizard, profiles, pending, user, session, profile, organization, error, loadingProfileRef, mounted, initPc, timers, loads, micro,
                 signouts, hist>>

\* the call: the guard, then the flag, setLoading(true) and the pre-check.
\* checkEmailExists answers an empty email at once, without the procedure:
\* the invocation goes on to the provider call in the same task.
SignUp(email) ==
  /\ Idle /\ mounted
  /\ email \in Emails
  /\ IF signingUpRef
     THEN /\ ret' = SignUpReturn(Absent, [message |-> InProgressMessage], <<>>)
          /\ UNCHANGED <<signingUpRef, loading, signups>>
     ELSE /\ Len(signups) < MaxSignUps
          /\ signingUpRef' = TRUE
          /\ loading' = TRUE
          /\ signups' = Append(signups,
                          IF email = ""
                          THEN [pc |-> "create", email |-> email,
                                answer |-> "none", calls |-> <<"auth.signUp">>]
                          ELSE [pc |-> "check", email |-> email,
                                answer |-> "none",
                                calls |-> <<"check_email_exists">>])
          /\ ret' = ret
  /\ UNCHANGED <<rag, vertical, wizard, profiles, pending, user, session, profile, organization, error, loadingProfileRef, mounted, initPc, timers, loads, micro,
                 signouts, hist>>

\* the pre-check step going on to the provider call whatever the answer
SignUpCheckReturns_Proceeds(i, answer) ==
  /\ Idle /\ i \in 1..Len(signups) /\ signups[i].pc = "check"
  /\ answer \in RpcAnswers
  /\ signups' = [signups EXCEPT ![i].pc = "create", ![i].answer = answer,
                                ![i].calls = Append(@, "auth.signUp")]
  /\ UNCHANGED <<error, signingUpRef, loading, ret>>
  /\ UNCHANGED <<rag, vertical, wizard, profiles, pending, user, session, profile, organization, loadingProfileRef, mounted, initPc, timers, loads, micro,
                 signouts, hist>>

\* the remote procedure answers and checkEmailExists returns: EMAIL_EXISTS
\* when it returns true (145-158), the provider call otherwise (164)
SignUpCheckReturns(i, answer) ==
  /\ Idle /\ i \in 1..Len(signups) /\ signups[i].pc = "check"
  /\ answer \in RpcAnswers
  /\ IF CheckEmailExists(signups[i].email, answer)
     THEN /\ error' = EmailExistsMessage
          /\ signingUpRef' = FALSE
          /\ loading' = FALSE
          /\ signups' = RemoveAt(signups, i)
          /\ ret' = SignUpReturn(Absent,
                      [message |-> EmailExistsMessage, code |-> "EMAIL_EXISTS"],
                      signups[i].calls)
     ELSE /\ signups' = [signups EXCEPT ![i].pc = "create",
                                        ![i].answer = answer,
                                        ![i].calls = Append(@, "auth.signUp")]
          /\ UNCHANGED <<error, signingUpRef, loading, ret>>
  /\ UNCHANGED <<rag, vertical, wizard, profiles, pending, user, session, profile, organization, loadingProfileRef, mounted, initPc, timers, loads, micro,
                 signouts, hist>>

\* the provider step without the finally block: the flag is cleared on
\* success (202) and in the catch block (207) only
SignUpCreateReturns_NoFinally(i, outcome) ==
  /\ Idle /\ i \in 1..Len(signups) /\ signups[i].pc = "create"
  /\ outcome \in CreateOutcomes
  /\ signups' = RemoveAt(signups, i)
  /\ signingUpRef' = IF outcome.kind = "error" THEN signingUpRef ELSE FALSE
  /\ loading' = loading
  /\ ret' = SignUpReturn(IF outcome.kind = "data"
                         THEN [email |-> signups[i].email] ELSE Absent,
                         CreateError(outcome), signups[i].calls)
  /\ error' = IF outcome.kind = "throws" THEN CaughtMessage(outcome.error) ELSE error
  /\ UNCHANGED <<rag, vertical, wizard, profiles, pending, user, session, profile, organization, loadingProfileRef, mounted, initPc, timers, loads, micro,
                 signouts, hist>>

\* supabase.auth.signUp answers or rejects: the value returned, setError in
\* the catch block, then the finally block
SignUpCreateReturns(i, outcome) ==
  /\ Idle /\ i \in 1..Len(signups) /\ signups[i].pc = "create"
  /\ outcome \in CreateOutcomes
  /\ signups' = RemoveAt(signups, i)
  /\ signingUpRef' = FALSE
  /\ loading' = FALSE
  /\ ret' = SignUpReturn(IF outcome.kind = "data"
                         THEN [email |-> signups[i].email] ELSE Absent,
                         CreateError(outcome), signups[i].calls)
  /\ error' = IF outcome.kind = "throws" THEN CaughtMessage(outcome.error) ELSE error
  /\ UNCHANGED <<rag, vertical, wizard, profiles, pending, user, session, profile, organization, loadingProfileRef, mounted, initPc, timers, loads, micro,
                 signouts, hist>>

\* --------------------------------------------------------------------------
\* signOut (265-286)
\* --------------------------------------------------------------------------
SignOut ==
  /\ Idle /\ mounted
  /\ signouts < MaxSignOuts
  /\ loading' = TRUE
  /\ error' = Null
  /\ signouts' = signouts + 1
  /\ UNCHANGED <<rag, vertical, wizard, profiles, pending, user, session, profile, organization, loadingProfileRef, signingUpRef, mounted, initPc, timers,
                 loads, micro, signups, ret, hist>>

\* the value { error } signOut returns
SignOutReturn(err) ==
  [op |-> "signOut", data |-> Absent, error |-> err, calls |-> <<>>]

\* signOut's success path without setSession(null)
SignOutReturns_KeepsSession(ok) ==
  /\ Idle /\ signouts > 0
  /\ ok \in BOOLEAN
  /\ signouts' = signouts - 1
  /\ loading' = FALSE
  /\ IF ok
     THEN /\ user' = Null
          /\ session' = session
          /\ profile' = Absent
          /\ organization' = Absent
          /\ hist' = [hist EXCEPT !.lastEvent = "OTHER"]
          /\ error' = error
          /\ ret' = SignOutReturn(Absent)
     ELSE /\ error' = "signOutError"
          /\ ret' = SignOutReturn([message |-> "signOutError"])
          /\ UNCHANGED <<user, session, profile, organization, hist>>
  /\ UNCHANGED <<rag, vertical, wizard, profiles, pending, loadingProfileRef, signingUpRef, mounted, initPc, timers,
                 loads, micro, signups>>

\* signOut clearing the four fields before it tests the provider's answer
SignOutReturns_ClearsFirst(ok) ==
  /\ Idle /\ signouts > 0
  /\ ok \in BOOLEAN
  /\ signouts' = signouts - 1
  /\ loading' = FALSE
  /\ user' = Null
  /\ session' = Absent
  /\ profile' = Absent
  /\ organization' = Absent
  /\ hist' = [hist EXCEPT !.lastEvent = "OTHER"]
  /\ IF ok
     THEN /\ error' = error
          /\ ret' = SignOutReturn(Absent)
     ELSE /\ error' = "signOutError"
          /\ ret' = SignOutReturn([message |-> "signOutError"])
  /\ UNCHANGED <<rag, vertical, wizard, profiles, pending, loadingProfileRef, signingUpRef, mounted, initPc, timers,
                 loads, micro, signups>>

\* supabase.auth.signOut answers
SignOutReturns(ok) ==
  /\ Idle /\ signouts > 0
  /\ ok \in BOOLEAN
  /\ signouts' = signouts - 1
  /\ loading' = FALSE
  /\ IF ok
     THEN /\ user' = Null
          /\ session' = Absent
          /\ profile' = Absent
          /\ organization' = Absent
          /\ hist' = [hist EXCEPT !.lastEvent = "OTHER"]
          /\ error' = error
          /\ ret' = SignOutReturn(Absent)
     ELSE /\ error' = "signOutError"
          /\ ret' = SignOutReturn([message |-> "signOutError"])
          /\ UNCHANGED <<user, session, profile, organization, hist>>
  /\ UNCHANGED <<rag, vertical, wizard, profiles, pending, loadingProfileRef, signingUpRef, mounted, initPc, timers,
                 loads, micro, signups>>

\* --------------------------------------------------------------------------
\* signIn (221-240), signInWithGoogle (242-263), resetPassword (296-314),
\* updatePassword (316-334): one shape, one provider call each
\* --------------------------------------------------------------------------
ProviderOps == {"signIn", "signInWithGoogle", "resetPassword", "updatePassword"}

RejectedMessage == "Invalid login credentials"

\* how the provider call ends: it answers data, it answers an error, or it
\* rejects with an exception
ProviderOutcomes ==
  {[kind |-> "data", message |-> ""],
   [kind |-> "error", message |-> RejectedMessage],
   [kind |-> "throws", message |-> "Failed to fetch"]}

\* the value { data, error } the operation returns
ProviderReturn(op, outcome) ==
  IF outcome.kind = "data"
  THEN [op |-> op, data |-> [from |-> op], error |-> Absent, calls |-> <<>>]
  ELSE [op |-> op, data |-> Absent, error |-> [message |-> outcome.message],
        calls |-> <<>>]

\* the call: setLoading(true), setError(null), then the provider call
ProviderCall(op) ==
  /\ Idle /\ mounted
  /\ op \in ProviderOps
  /\ Len(pending) < MaxPending
  /\ loading' = TRUE
  /\ error' = Null
  /\ pending' = Append(pending, op)
  /\ UNCHANGED <<rag, vertical, wizard, profiles, user, session, profile, organization, loadingProfileRef,
                 signingUpRef, mounted, initPc, timers, loads, micro, signups,
                 signouts, ret, hist>>

SignIn == ProviderCall("signIn")
SignInWithGoogle == ProviderCall("signInWithGoogle")
ResetPassword == ProviderCall("resetPassword")
UpdatePassword == ProviderCall("updatePassword")

\* the provider call settles without the catch block: on an error or an
\* exception nothing is recorded and nothing is returned
ProviderCallReturns_NoCatch(i, outcome) ==
  /\ Idle /\ i \in 1..Len(pending)
  /\ outcome \in ProviderOutcomes
  /\ pending' = RemoveAt(pending, i)
  /\ loading' = FALSE
  /\ error' = error
  /\ ret' = IF outcome.kind = "data"
            THEN ProviderReturn(pending[i], outcome)
            ELSE [op |-> pending[i], data |-> Absent, error |-> Absent,
                  calls |-> <<>>]
  /\ UNCHANGED <<rag, vertical, wizard, profiles, user, session, profile, organization, loadingProfileRef,
                 signingUpRef, mounted, initPc, timers, loads, micro, signups,
                 signouts, hist>>

\* the provider call settles: if (error) throw error, the catch block
\* (setError(err.message), the error returned) and the finally block
ProviderCallReturns(i, outcome) ==
  /\ Idle /\ i \in 1..Len(pending)
  /\ outcome \in ProviderOutcomes
  /\ pending' = RemoveAt(pending, i)
  /\ loading' = FALSE
  /\ error' = IF outcome.kind = "data" THEN error ELSE outcome.message
  /\ ret' = ProviderReturn(pending[i], outcome)
  /\ UNCHANGED <<rag, vertical, wizard, profiles, user, session, profile, organization, loadingProfileRef,
                 signingUpRef, mounted, initPc, timers, loads, micro, signups,
                 signouts, hist>>

\* --------------------------------------------------------------------------
\* callRagBrain (432-499)
\* --------------------------------------------------------------------------
UnauthenticatedMessage == "Utilisateur non authentifie"
EmptyQueryMessage == "La requete ne peut pas etre vide"
EmptyVerticalMessage == "L'ID de la verticale est requis"
UnknownEdgeMessage == "Erreur inconnue de l'Edge Function"

\* messages of the exceptions the collaborators throw: getSession and fetch
\* rejecting, response.json() on a body that is not JSON, and the read of a
\* property of a body that is the JSON null
ProbeErrorMessage == "Auth session unavailable"
NetworkErrorMessage == "Failed to fetch"
ParseErrorMessage == "Unexpected token < in JSON at position 0"
NullBodyMessage == "Cannot read properties of null"

\* strings are the sequences of their characters
Whitespace == {" ", "\t", "\n"}

\* the query argument: "", blank, padded, plain
Queries == {<<>>, <<" ", "\t">>, <<" ", "X", "?", "\n">>, <<"X", "?">>}

\* the verticalId argument: "", blank, "audit", padded
VerticalIds ==
  {<<>>, <<" ">>, <<"a", "u", "d", "i", "t">>, <<"\t", "a", "u", "d", "i", "t", " ">>}

\* the options argument: an object with any of the two tunables, each a
\* number from 0 on (matchThreshold counted in hundredths)
OptionNames == {"matchThreshold", "matchCount"}
Options == UNION {[D -> 0..MaxTunable] : D \in SUBSET OptionNames}

\* the defaults: 0.5 (in hundredths) and 5
DEFAULT_MATCH_THRESHOLD == 50
DEFAULT_MATCH_COUNT == 5

\* String.prototype.trim
RECURSIVE TrimStart(_)
TrimStart(t) ==
  IF t # <<>> /\ Head(t) \in Whitespace THEN TrimStart(Tail(t)) ELSE t

RECURSIVE TrimEnd(_)
TrimEnd(t) ==
  IF t # <<>> /\ t[Len(t)] \in Whitespace
  THEN TrimEnd(SubSeq(t, 1, Len(t) - 1)) ELSE t

Trim(t) == TrimEnd(TrimStart(t))

\* options.name || default
OptionOr(options, name, default) ==
  IF name \in DOMAIN options /\ options[name] # 0 THEN options[name] ELSE default

\* requestBody (450-455) and the token of the Authorization header (463)
RequestOf(query, verticalId, options, s) ==
  [query |-> Trim(query), vertical_id |-> Trim(verticalId),
   match_threshold |-> OptionOr(options, "matchThreshold", DEFAULT_MATCH_THRESHOLD),
   match_count |-> OptionOr(options, "matchCount", DEFAULT_MATCH_COUNT),
   token |-> s.tok]

\* the HTTP statuses the service answers with; response.ok
Statuses == {200, 404, 502}
Ok(status) == status \in 200..299

\* `Erreur HTTP: ${response.status}`
HttpErrorMessage(status) ==
  CASE status = 200 -> "Erreur HTTP: 200"
    [] status = 404 -> "Erreur HTTP: 404"
    [] status = 502 -> "Erreur HTTP: 502"

\* the JSON objects the service sends: success with sources, with an empty
\* list, without sources; failure with a message, without one, with an empty
\* one; an error message without a success flag
JsonObjects ==
  {[success |-> TRUE, answer |-> "Y", sources |-> <<"s1", "s2">>,
    processing_time_ms |-> 42],
   [success |-> TRUE, answer |-> "Y", sources |-> <<>>, processing_time_ms |-> 42],
   [success |-> TRUE, answer |-> "Y", processing_time_ms |-> 42],
   [success |-> FALSE, error |-> "Vertical not found"],
   [success |-> FALSE],
   [success |-> FALSE, error |-> ""],
   [error |-> "Internal error"]}

\* the response bodies: text that is not JSON, the JSON null, a JSON object
Bodies ==
  {[kind |-> "malformed"], [kind |-> "null"]}
    \cup [kind : {"object"}, data : JsonObjects]

Responses == [status : Statuses, body : Bodies]

\* data.error || fallback
ErrorOr(data, fallback) ==
  IF "error" \in DOMAIN data /\ data.error # "" THEN data.error ELSE fallback

\* the sources in reverse order
SourcesOf_Reversed(data) ==
  IF "sources" \in DOMAIN data
  THEN [k \in 1..Len(data.sources) |-> data.sources[Len(data.sources) + 1 - k]]
  ELSE <<>>

\* data.sources || []
SourcesOf(data) == IF "sources" \in DOMAIN data THEN data.sources ELSE <<>>

\* the invocation returns { data, error }
Return(inv, data, err) ==
  [inv EXCEPT !.pc = "done", !.data = data, !.error = err]

\* a throw inside the try block that leaves the function
Catch_Rethrows(inv, message) == [inv EXCEPT !.pc = "threw"]

\* a throw inside the try block, and the catch block (492-498): the thrown
\* value is an Error and is returned as the error
Catch(inv, message) == Return(inv, Absent, [message |-> message])

\* the call: the try block up to await supabase.auth.getSession()
CallRagBrain(query, verticalId, options) ==
  /\ rag.pc \in {"idle", "done"}
  /\ query \in Queries /\ verticalId \in VerticalIds /\ options \in Options
  /\ rag' = [NoInvocation EXCEPT !.pc = "session", !.query = query,
               !.verticalId = verticalId, !.options = options,
               !.calls = <<"auth.getSession">>]
  /\ UNCHANGED engine

\* the step after the session probe with the three tests left out
RagSessionReturns_NoValidation(s) ==
  /\ rag.pc = "session"
  /\ s \in Sessions \cup {Absent}
  /\ rag' = [rag EXCEPT !.pc = "fetch", !.calls = Append(@, "fetch"),
               !.request = RequestOf(rag.query, rag.verticalId, rag.options,
                                     IF s = Absent THEN [tok |-> Null] ELSE s)]
  /\ UNCHANGED engine

\* getSession answers with a session or null: the three tests (437-447),
\* then the request and the fetch (450-469)
RagSessionReturns(s) ==
  /\ rag.pc = "session"
  /\ s \in Sessions \cup {Absent}
  /\ rag' = IF s = Absent
            THEN Catch(rag, UnauthenticatedMessage)
            ELSE IF rag.query = <<>> \/ Trim(rag.query) = <<>>
            THEN Catch(rag, EmptyQueryMessage)
            ELSE IF rag.verticalId = <<>> \/ Trim(rag.verticalId) = <<>>
            THEN Catch(rag, EmptyVerticalMessage)
            ELSE [rag EXCEPT !.pc = "fetch", !.calls = Append(@, "fetch"),
                    !.request = RequestOf(rag.query, rag.verticalId, rag.options, s)]
  /\ UNCHANGED engine

\* getSession rejects
RagSessionThrows ==
  /\ rag.pc = "session"
  /\ rag' = Catch(rag, ProbeErrorMessage)
  /\ UNCHANGED engine

\* fetch resolves with a response: await response.json() (471)
RagFetchReturns(response) ==
  /\ rag.pc = "fetch"
  /\ response \in Responses
  /\ rag' = [rag EXCEPT !.pc = "json", !.response = response]
  /\ UNCHANGED engine

\* fetch rejects: network failure
RagFetchRejects ==
  /\ rag.pc = "fetch"
  /\ rag' = Catch(rag, NetworkErrorMessage)
  /\ UNCHANGED engine

\* response.json() settles: it rejects on a body that is not JSON; on the
\* JSON null the first property read throws; on an object the status test
\* (473-477), the success test (480-482) and the result (484-491)
RagJsonReturns ==
  /\ rag.pc = "json"
  /\ LET status == rag.response.status
         body == rag.response.body
     IN rag' = IF body.kind = "malformed"
               THEN Catch(rag, ParseErrorMessage)
               ELSE IF body.kind = "null"
               THEN Catch(rag, NullBodyMessage)
               ELSE IF ~Ok(status)
               THEN Catch(rag, ErrorOr(body.data, HttpErrorMessage(status)))
               ELSE IF ~("success" \in DOMAIN body.data /\ body.data.success)
               THEN Catch(rag, ErrorOr(body.data, UnknownEdgeMessage))
               ELSE Return(rag,
                           [answer |-> body.data.answer,
                            sources |-> SourcesOf(body.data),
                            processingTime |-> body.data.processing_time_ms],
                           Absent)
  /\ UNCHANGED engine

\* --------------------------------------------------------------------------
\* Specification
\* --------------------------------------------------------------------------
\* the steps of loadUserProfile and of the callers that await it
LoaderStep ==
  \/ \E l \in BagToSet(loads) : \E row \in ProfileRows(l.uid) : ProfileFound(l, row)
  \/ \E l \in BagToSet(loads) : ProfileNotFound(l)
  \/ \E l \in BagToSet(loads) : ProfileFailed(l)
  \/ \E l \in BagToSet(loads) : OrgFound(l)
  \/ \E l \in BagToSet(loads) : OrgFailed(l)
  \/ Resume

\* the steps of the effect
EffectStep ==
  \/ \E s \in Sessions \cup {Absent} : InitProbeReturns(s)
  \/ InitProbeThrows
  \/ \E s \in Sessions : SignedInEvent(s)
  \/ SignedOutEvent
  \/ \E e \in {"TOKEN_REFRESHED", "INITIAL_SESSION"} :
       \E s \in Sessions \cup {Absent} : OtherEvent(e, s)
  \/ TimerFires
  \/ Dispose

SignUpStep ==
  \/ \E email \in Emails : SignUp(email)
  \/ \E i \in 1..MaxSignUps : \E a \in RpcAnswers : SignUpCheckReturns(i, a)
  \/ \E i \in 1..MaxSignUps : \E o \in CreateOutcomes : SignUpCreateReturns(i, o)

SignOutStep ==
  \/ SignOut
  \/ \E ok \in BOOLEAN : SignOutReturns(ok)

\* the session engine: the effect, the loader and refreshProfile
Next ==
  \/ EffectStep
  \/ LoaderStep
  \/ RefreshProfile

Spec == Init /\ [][Next]_vars

\* the steps that store a session: the effect (with the loads it triggers)
\* and signOut
NextSession ==
  \/ EffectStep
  \/ LoaderStep
  \/ SignOutStep

SpecSession == Init /\ [][NextSession]_vars

\* a pending call of the provider or of the store settles: the session probe
\* answers or rejects, the fetch of the load that caller c started for user u
\* answers
ProbeSettles ==
  \/ \E s \in Sessions \cup {Absent} : InitProbeReturns(s)
  \/ InitProbeThrows

LoadSettles(c, u) ==
  \E l \in BagToSet(loads) :
    /\ l.caller = c /\ l.uid = u
    /\ \/ \E row \in ProfileRows(l.uid) : ProfileFound(l, row)
       \/ ProfileNotFound(l)
       \/ ProfileFailed(l)
       \/ OrgFound(l)
       \/ OrgFailed(l)

\* initSession, the loader, and the events that start a load or clear the
\* snapshot, where every pending call settles in the end and a queued
\* continuation runs
NextInit ==
  \/ ProbeSettles
  \/ \E s \in Sessions : SignedInEvent(s)
  \/ SignedOutEvent
  \/ TimerFires
  \/ Dispose
  \/ LoaderStep

SpecInit ==
  /\ Init /\ [][NextInit]_vars
  /\ SF_vars(ProbeSettles)
  /\ \A c \in Callers : \A u \in Users : SF_vars(LoadSettles(c, u))
  /\ WF_vars(Resume)

\* signUp next to the steps of the effect that trigger no profile load
NextSignUp ==
  \/ SignUpStep
  \/ InitProbeReturns(Absent)
  \/ InitProbeThrows
  \/ SignedOutEvent
  \/ \E e \in {"TOKEN_REFRESHED", "INITIAL_SESSION"} :
       \E s \in Sessions \cup {Absent} : OtherEvent(e, s)
  \/ Dispose

SpecSignUp == Init /\ [][NextSignUp]_vars

\* the two guard flags: the events that reset the profile-fetch guard, the
\* timers and loads they start, and signUp calls whose pre-check answers and
\* whose account is created
NextGuards ==
  \/ \E s \in Sessions : SignedInEvent(s)
  \/ SignedOutEvent
  \/ TimerFires
  \/ LoaderStep
  \/ \E email \in Emails : SignUp(email)
  \/ \E i \in 1..MaxSignUps : \E a \in {"true", "false"} : SignUpCheckReturns(i, a)
  \/ \E i \in 1..MaxSignUps :
       SignUpCreateReturns(i, [kind |-> "data", error |-> [status |-> 0, message |-> ""]])

SpecGuards == Init /\ [][NextGuards]_vars

\* signUp alone: the calls and the answers of the pre-check procedure and of
\* the provider, while the session probe is pending
NextSignUpCalls == SignUpStep

SpecSignUpCalls == Init /\ [][NextSignUpCalls]_vars

\* callRagBrain: one invocation after the other, each followed to its return
DispatchStep ==
  \/ \E q \in Queries : \E v \in VerticalIds : \E o \in Options : CallRagBrain(q, v, o)
  \/ \E s \in Sessions \cup {Absent} : RagSessionReturns(s)
  \/ RagSessionThrows
  \/ \E r \in Responses : RagFetchReturns(r)
  \/ RagFetchRejects
  \/ RagJsonReturns

NextDispatch == DispatchStep

SpecDispatch == Init /\ [][NextDispatch]_vars

\* the errors resolved locally: signUp calls beside callRagBrain invocations
\* without options, a SIGNED_OUT event to lower loading, and the answers that
\* let both go on to their return
NextLocalErrors ==
  \/ \E email \in Emails : SignUp(email)
  \/ \E i \in 1..MaxSignUps : SignUpCheckReturns(i, "false")
  \/ \E i \in 1..MaxSignUps :
       SignUpCreateReturns(i, [kind |-> "data", error |-> [status |-> 0, message |-> ""]])
  \/ SignedOutEvent
  \/ \E q \in Queries : \E v \in VerticalIds : CallRagBrain(q, v, <<>>)
  \/ \E s \in Sessions \cup {Absent} : RagSessionReturns(s)
  \/ RagFetchRejects

SpecLocalErrors == Init /\ [][NextLocalErrors]_vars

\* the four one-call operations
ProviderStep ==
  \/ SignIn
  \/ SignInWithGoogle
  \/ ResetPassword
  \/ UpdatePassword
  \/ \E i \in 1..MaxPending : \E o \in ProviderOutcomes : ProviderCallReturns(i, o)

\* how the provider call of signUp ends, one outcome of each kind
CreateKinds ==
  {[kind |-> "data", error |-> [status |-> 0, message |-> ""]],
   [kind |-> "error", error |-> [status |-> 500, message |-> "Database error saving new user"]],
   [kind |-> "throws", error |-> [status |-> 0, message |-> "Failed to fetch"]]}

\* every public operation with its failures: initialization for user A, the
\* loader called by initSession and refreshProfile with a profiles fetch that
\* fails or finds no row, signOut, signUp without the pre-check, and the four
\* one-call operations
NextOps ==
  \/ InitProbeReturns([user |-> "A", tok |-> "t1"])
  \/ InitProbeThrows
  \/ \E l \in BagToSet(loads) : ProfileFailed(l)
  \/ \E l \in BagToSet(loads) : ProfileNotFound(l)
  \/ Resume
  \/ RefreshProfile
  \/ SignOutStep
  \/ SignUp("")
  \/ \E i \in 1..MaxSignUps : \E o \in CreateKinds : SignUpCreateReturns(i, o)
  \/ ProviderStep

SpecOps == Init /\ [][NextOps]_vars

\* the snapshots the consumers render: initialization, the loader, SIGNED_OUT
\* and signOut over every store
NextValue ==
  \/ \E s \in Sessions \cup {Absent} : InitProbeReturns(s)
  \/ LoaderStep
  \/ SignedOutEvent
  \/ SignOutStep

SpecValue == InitStore /\ [][NextValue]_vars

\* the Onboarding page of a user restored by initSession
WizardStep ==
  \/ \E role \in ROLES : SelectRole(role)
  \/ HandleNext
  \/ HandleBack
  \/ HandleComplete
  \/ \E ok \in BOOLEAN : CompleteOnboardingReturns(ok)

NextOnboarding ==
  \/ \E s \in Sessions : InitProbeReturns(s)
  \/ LoaderStep
  \/ WizardStep

SpecOnboarding == InitStore /\ [][NextOnboarding]_vars

\* the VerticalProvider alone
NextVertical ==
  \/ \E stored \in KnownVerticals \cup {Null} : \E hasClient \in BOOLEAN :
        MountVertical(stored, hasClient)
  \/ \E data \in VerticalLists : FetchVerticalsReturns(data)
  \/ FetchVerticalsFails
  \/ \E verticalId \in KnownVerticals : SetCurrentVertical(verticalId)

SpecVertical == Init /\ [][NextVertical]_vars

TypeOK ==
  /\ vertical.pc \in {"unmounted", "fetch", "done"}
  /\ vertical.currentVertical \in KnownVerticals \cup {Null}
  /\ user \in Users \cup {Null}
  /\ session \in Sessions \cup {Absent}
  /\ profile \in [id : Users, org_id : OrgIds \cup {Null},
                  business_role : ROLES \cup {Null, ""},
                  app_role : {"user", "org_admin", "super_admin"}] \cup {Absent}
  /\ wizard.at \in {"/onboarding", "/dashboard"}
  /\ wizard.pc \in {"idle", "rpc", "refresh"}
  /\ wizard.selectedRole \in ROLES \cup {Null}
  /\ organization \in {OrgRow(o) : o \in OrgIds} \cup {Absent}
  /\ loading \in BOOLEAN
  /\ error \in {Null, "profileError", "probeError", "signOutError",
                EmailExistsMessage, UnexpectedMessage, RejectedMessage}
                  \cup ExceptionMessages
  /\ loadingProfileRef \in BOOLEAN
  /\ signingUpRef \in BOOLEAN /\ mounted \in BOOLEAN
  /\ initPc \in {"probe", "load", "done"}
  /\ Len(timers) <= MaxTimers /\ BagCardinality(loads) <= MaxLoads
  /\ \A l \in BagToSet(loads) : l.caller \in Callers /\ l.uid \in Users
  /\ Len(micro) <= 1 /\ \A i \in 1..Len(micro) : micro[i] \in Callers
  /\ Len(signups) <= MaxSignUps /\ signouts \in 0..MaxSignOuts
  /\ Len(pending) <= MaxPending
  /\ \A i \in 1..Len(pending) : pending[i] \in ProviderOps
  /\ rag.pc \in {"idle", "session", "fetch", "json", "done"}
  /\ rag.query \in Queries /\ rag.verticalId \in VerticalIds
  /\ rag.options \in Options


\* --------------------------------------------------------------------------
\* Properties
\* --------------------------------------------------------------------------

\* a snapshot the consumers of the live engine are rendered with
Published == Idle /\ mounted

\* no timer, fetch, probe or continuation is pending
Quiescent ==
  /\ timers = <<>> /\ loads = EmptyBag /\ micro = <<>> /\ initPc = "done"

\* C1: after a SIGNED_OUT event, and until the next step that stores a session
\* (sign-in, restore), profile and organization are null, also when a profile
\* load or a settling timer was pending when the SIGNED_OUT was processed.
C1_SignedOutDiscardsLateLoad ==
  (Published /\ hist.lastEvent = "SIGNED_OUT") =>
    (profile = Absent /\ organization = Absent)

\* C2: when a SIGNED_IN for a principal was followed by a SIGNED_IN for a
\* different principal, which is the last session event, then once nothing is
\* pending the profile is absent or belongs to the last principal.
C2_LastSignedInOwnsProfile ==
  (Published /\ Quiescent /\ hist.lastEvent = "SIGNED_IN"
     /\ hist.signedIn \ {user} # {}) =>
    (profile = Absent \/ profile.id = user)

\* C3: a refreshProfile call made while the fetch of an earlier refreshProfile
\* call for the same principal is pending issues no fetch.
C3_SecondRefreshIssuesNoFetch ==
  [][(RefreshProfile /\ \E l \in BagToSet(loads) : l.caller = "refresh" /\ l.uid = user)
       => loads' = loads]_vars

\* a caller reaches loadUserProfile while the guard is set
GuardedLoaderCall ==
  /\ loadingProfileRef /\ mounted
  /\ TimerFires \/ \E s \in Sessions : InitProbeReturns(s)

\* C4: a call of the loader made while the guard is set issues no fetch and
\* changes neither the guard nor profile, organization, error or loading (from
\* the timer callback: no field of the snapshot); a load is in flight whenever
\* the guard is set, so one fetch serves the two calls.
C4_GuardedCallIsNoOp ==
  /\ [](loadingProfileRef => loads # EmptyBag)
  /\ [][GuardedLoaderCall =>
          /\ loads' = loads
          /\ loadingProfileRef' = loadingProfileRef
          /\ <<profile, organization, error, loading>>'
               = <<profile, organization, error, loading>>
          /\ TimerFires => snapshot' = snapshot]_vars

\* C4 witness: a caller waits to resume after a call the guard rejected,
\* while the load that holds the guard is still in flight
C4_Witness ==
  /\ micro # <<>> /\ Head(micro) \in {"timer", "init"}
  /\ loadingProfileRef /\ loads # EmptyBag

\* C5: at most one signUp call is past the guard at any time, and a call made
\* while the flag is set returns the in-progress error without a network call
\* and without touching the snapshot.
C5_OneSignUpReachesProvider ==
  /\ [](Len(signups) <= 1)
  /\ [][((\E email \in Emails : SignUp(email)) /\ signingUpRef) =>
          /\ signups' = signups
          /\ signingUpRef' = signingUpRef
          /\ snapshot' = snapshot
          /\ ret' = SignUpReturn(Absent, [message |-> InProgressMessage], <<>>)]_vars

\* C5 witness: a signUp call was rejected while another one is in flight
C5_Witness ==
  /\ Len(signups) = 1 /\ signingUpRef
  /\ ret.op = "signUp" /\ ret.error = [message |-> InProgressMessage]

\* C6: once the engine is disposed, no step changes a field of the snapshot.
C6_DisposedEngineKeepsSnapshot ==
  [][~mounted => snapshot' = snapshot]_vars

\* C7: the step that processes SIGNED_OUT ends with principal, session, profile
\* and organization null and loading false, and issues no network call.
C7_SignedOutClearsInOneStep ==
  [][SignedOutEvent =>
       /\ user' = Null /\ session' = Absent
       /\ profile' = Absent /\ organization' = Absent
       /\ loading' = FALSE
       /\ loads' = loads /\ signups' = signups /\ signouts' = signouts]_vars

\* C7 witness: SIGNED_OUT was processed while a profile was shown and a load
\* was in flight, and the snapshot is cleared
C7_Witness ==
  /\ hist.lastEvent = "SIGNED_OUT" /\ loads # EmptyBag
  /\ user = Null /\ session = Absent /\ profile = Absent
  /\ organization = Absent /\ ~loading

\* C8: in every snapshot a profile comes with a principal, and is that
\* principal's profile.
C8_ProfileBelongsToPrincipal ==
  (Published /\ profile # Absent) => (user # Null /\ profile.id = user)

\* C9: in every snapshot an organization comes with a profile, and is the
\* organization that profile refers to.
C9_OrganizationMatchesProfile ==
  (Published /\ organization # Absent) =>
    (profile # Absent /\ organization.id = profile.org_id)

\* C10: in every snapshot the principal is present exactly when the session
\* is, and is the session's user.
C10_PrincipalIsSessionUser ==
  /\ user # Null <=> session # Absent
  /\ session # Absent => user = session.user

\* C10 witness: a session stored by a SIGNED_IN event is shown with its
\* principal while a signOut call is in flight
C10_Witness ==
  /\ session # Absent /\ user = session.user
  /\ hist.lastEvent = "SIGNED_IN" /\ signouts > 0

\* C11: an accepted signUp call sets the flag before it is suspended, the flag
\* is false whenever no signUp call is executing, whichever way the last one
\* ended, and a call made then is accepted.
C11_SignUpFlagClearedOnEveryExit ==
  /\ [](signups = <<>> => ~signingUpRef)
  /\ [][((\E email \in Emails : SignUp(email)) /\ signups = <<>>) =>
          (signingUpRef' /\ Len(signups') = 1 /\ ret' = ret)]_vars

\* C11 witness: a signUp call ended with the provider's error passed through
\* (an exit without an explicit reset of the flag), and the flag is false
C11_Witness ==
  /\ signups = <<>> /\ ~signingUpRef
  /\ ret.op = "signUp" /\ ret.error \in ProviderErrors

\* C12: a step that ends a load, by success, not-found or failure, leaves the
\* guard false, and the guard is false whenever no load is in flight.
C12_GuardReleasedOnCompletion ==
  /\ [](loads = EmptyBag => ~loadingProfileRef)
  /\ [][BagCardinality(loads') < BagCardinality(loads) => ~loadingProfileRef']_vars

\* C12 witness: a load ended by a failure, none is in flight, the guard is false
C12_Witness ==
  /\ error = "profileError" /\ loads = EmptyBag /\ ~loadingProfileRef

\* C13: when checkEmailExists returns true, signUp returns the EMAIL_EXISTS
\* error and the invocation ends having called the pre-check procedure only.
C13_ExistingEmailSkipsProvider ==
  [][\A i \in 1..MaxSignUps : \A a \in RpcAnswers :
       (SignUpCheckReturns(i, a) /\ CheckEmailExists(signups[i].email, a)) =>
         /\ signups' = RemoveAt(signups, i)
         /\ ret' = SignUpReturn(Absent,
                     [message |-> EmailExistsMessage, code |-> "EMAIL_EXISTS"],
                     <<"check_email_exists">>)]_vars

\* C13 witness: a signUp call returned EMAIL_EXISTS from the pre-check
C13_Witness ==
  /\ ret.op = "signUp" /\ ret.calls = <<"check_email_exists">>
  /\ ret.error = [message |-> EmailExistsMessage, code |-> "EMAIL_EXISTS"]

\* the number of create-account calls among the provider calls of an invocation
CreateCalls(calls) == Cardinality({k \in 1..Len(calls) : calls[k] = "auth.signUp"})

\* C14: when the pre-check procedure answers an error or rejects, the
\* invocation goes on to the provider's create-account call and returns
\* nothing yet; no invocation makes that call more than once.
C14_FailedPreCheckStillSignsUp ==
  /\ [][\A i \in 1..MaxSignUps : \A a \in {"error", "throws"} :
          SignUpCheckReturns(i, a) =>
            /\ Len(signups') = Len(signups)
            /\ signups'[i].pc = "create"
            /\ signups'[i].calls = <<"check_email_exists", "auth.signUp">>
            /\ ret' = ret /\ error' = error /\ signingUpRef' = signingUpRef]_vars
  /\ [](/\ CreateCalls(ret.calls) <= 1
        /\ \A i \in 1..Len(signups) :
             CreateCalls(signups[i].calls) = IF signups[i].pc = "create" THEN 1 ELSE 0)

\* C14 witness: the provider's create-account call is pending after a
\* pre-check whose procedure failed
C14_Witness ==
  \E i \in 1..Len(signups) :
    /\ signups[i].pc = "create" /\ signups[i].answer \in {"error", "throws"}
    /\ signups[i].calls = <<"check_email_exists", "auth.signUp">>

\* C15: when the provider's create-account call answers an error of status
\* 422 or 400, signUp returns the EMAIL_EXISTS error, whatever the message.
C15_Status422Or400IsEmailExists ==
  [][\A i \in 1..MaxSignUps : \A o \in CreateOutcomes :
       (o.kind = "error" /\ o.error.status \in {422, 400} /\ SignUpCreateReturns(i, o)) =>
         /\ ret'.data = Absent
         /\ ret'.error = [message |-> EmailExistsMessage, code |-> "EMAIL_EXISTS",
                          originalError |-> o.error]]_vars

\* C15 witness: EMAIL_EXISTS was returned for an error of status 422 with an
\* empty message, and for one of status 400 with an unrelated message
C15_Witness ==
  /\ ret.op = "signUp"
  /\ \E e \in {[status |-> 422, message |-> ""],
               [status |-> 400, message |-> "Rate limit exceeded"]} :
       ret.error = [message |-> EmailExistsMessage, code |-> "EMAIL_EXISTS",
                    originalError |-> e]

\* C16: when the provider's create-account call answers an error whose status
\* is neither 422 nor 400 and whose message, lowered, contains none of the four
\* words and is none of the known phrasings, signUp returns that error itself.
C16_UnclassifiedErrorPassedThrough ==
  [][\A i \in 1..MaxSignUps : \A o \in CreateOutcomes :
       (/\ o.kind = "error"
        /\ o.error.status \notin {422, 400}
        /\ o.error.message \notin KnownPhrasings
        /\ SignUpCreateReturns(i, o)
        /\ LET lowered == ToLowerCase(Text(o.error.message))
           IN \A w \in Keywords : ~Includes(lowered, w)) =>
         (ret'.data = Absent /\ ret'.error = o.error)]_vars

\* C16 witness: signUp returned the provider's error of status 500 as it was
C16_Witness ==
  /\ ret.op = "signUp" /\ ret.data = Absent
  /\ ret.error = [status |-> 500, message |-> "Rate limit exceeded"]

\* C17 as stated: an exception thrown by the provider call is returned as an
\* UNKNOWN_ERROR error whose message is the exception's message.
C17_ExceptionReportedVerbatim ==
  [][\A i \in 1..MaxSignUps : \A o \in CreateOutcomes :
       (o.kind = "throws" /\ SignUpCreateReturns(i, o)) =>
         ret'.error = [message |-> o.error.message, code |-> "UNKNOWN_ERROR"]]_vars

\* C17: an exception thrown by the provider call ends the invocation with a
\* returned UNKNOWN_ERROR error, whose message is the exception's message when
\* it has one and the default message when it has none; the message is stored
\* in the snapshot's error.
C17_ExceptionReportedAsUnknownError ==
  [][\A i \in 1..MaxSignUps : \A o \in CreateOutcomes :
       (o.kind = "throws" /\ SignUpCreateReturns(i, o)) =>
         /\ signups' = RemoveAt(signups, i)
         /\ ret'.data = Absent
         /\ ret'.error = [message |-> IF o.error.message # ""
                                      THEN o.error.message ELSE UnexpectedMessage,
                          code |-> "UNKNOWN_ERROR"]
         /\ error' = ret'.error.message]_vars

\* C17 witness: signUp returned UNKNOWN_ERROR with the message of the exception
C17_Witness ==
  /\ ret.op = "signUp" /\ error = "Failed to fetch"
  /\ ret.error = [message |-> "Failed to fetch", code |-> "UNKNOWN_ERROR"]

\* every character of t is whitespace: t is empty after trimming
Blank(t) == \A k \in 1..Len(t) : t[k] \in Whitespace

\* C18: when the session probe answers no session, or the query or the
\* verticalId is empty after trimming, callRagBrain returns without a fetch:
\* the unauthenticated error with no session, else the empty-query error, else
\* the missing-vertical error.
C18_InvalidCallSendsNoRequest ==
  [][\A s \in Sessions \cup {Absent} :
       (RagSessionReturns(s) /\ (s = Absent \/ Blank(rag.query) \/ Blank(rag.verticalId))) =>
         /\ rag'.pc = "done"
         /\ rag'.calls = <<"auth.getSession">>
         /\ rag'.request = NoRequest
         /\ rag'.data = Absent
         /\ rag'.error = [message |-> IF s = Absent THEN UnauthenticatedMessage
                                      ELSE IF Blank(rag.query) THEN EmptyQueryMessage
                                      ELSE EmptyVerticalMessage]]_vars

\* C18 witness: callRagBrain("", "audit") returned the empty-query error
\* having called the session probe only
C18_Witness ==
  /\ rag.pc = "done" /\ rag.query = <<>>
  /\ rag.verticalId = <<"a", "u", "d", "i", "t">>
  /\ rag.error = [message |-> EmptyQueryMessage]
  /\ rag.calls = <<"auth.getSession">>

\* C19: no step of callRagBrain throws out of the function, and a returned
\* invocation carries exactly one of data and error.
C19_DispatchAlwaysReturnsPair ==
  /\ rag.pc \in {"idle", "session", "fetch", "json", "done"}
  /\ rag.pc = "done" => ((rag.data = Absent) # (rag.error = Absent))

\* C19 witness: callRagBrain returned an error and no data for a response
\* whose body is not JSON
C19_Witness ==
  /\ rag.pc = "done" /\ rag.response.body.kind = "malformed"
  /\ rag.data = Absent /\ rag.error = [message |-> ParseErrorMessage]

\* the error message the service sent with a response, "" when none
ServiceMessage(response) ==
  IF response.body.kind = "object" /\ "error" \in DOMAIN response.body.data
  THEN response.body.data.error
  ELSE ""

\* the service reports a failure: a status that is not 2xx, or a body whose
\* success flag is not true
RemoteFailure(response) ==
  \/ ~Ok(response.status)
  \/ /\ response.body.kind = "object"
     /\ ~("success" \in DOMAIN response.body.data /\ response.body.data.success)

\* C20: an invocation that received a response reporting a failure returned
\* the error with the service's message when there is one, else with the
\* message derived from the status when the status is not 2xx, else with the
\* generic message of the service.
C20_RemoteFailureCarriesServiceOrStatusMessage ==
  (rag.pc = "done" /\ rag.response # NoResponse /\ RemoteFailure(rag.response)) =>
    /\ rag.data = Absent
    /\ rag.error = [message |->
                      IF ServiceMessage(rag.response) # ""
                      THEN ServiceMessage(rag.response)
                      ELSE IF ~Ok(rag.response.status)
                      THEN HttpErrorMessage(rag.response.status)
                      ELSE UnknownEdgeMessage]

\* the response is a success: a 2xx status and an object whose success flag
\* is true
SuccessResponse(response) ==
  /\ Ok(response.status)
  /\ response.body.kind = "object"
  /\ "success" \in DOMAIN response.body.data /\ response.body.data.success

\* C21: an invocation that received a success response returned no error and
\* the response's answer and processing_time_ms, with the response's sources in
\* their order, or the empty list when the response carries none.
C21_SuccessResultMirrorsResponse ==
  (rag.pc = "done" /\ SuccessResponse(rag.response)) =>
    LET data == rag.response.body.data
    IN /\ rag.error = Absent
       /\ rag.data.answer = data.answer
       /\ rag.data.processingTime = data.processing_time_ms
       /\ rag.data.sources = IF "sources" \in DOMAIN data THEN data.sources ELSE <<>>

\* C21 witness: callRagBrain returned the two sources of a success response in
\* the order they came
C21_Witness ==
  /\ rag.pc = "done" /\ rag.error = Absent
  /\ rag.response.status = 200
  /\ rag.data = [answer |-> "Y", sources |-> <<"s1", "s2">>, processingTime |-> 42]

\* C22: the request carries the trimmed query and verticalId and, for each
\* tunable, the value the caller supplied, the default only when the caller
\* supplied none.
C22_RequestCarriesSuppliedTunables ==
  (rag.pc \in {"fetch", "json"} \/ (rag.pc = "done" /\ rag.request # NoRequest)) =>
    /\ rag.request.query = Trim(rag.query)
    /\ rag.request.vertical_id = Trim(rag.verticalId)
    /\ rag.request.match_threshold =
         IF "matchThreshold" \in DOMAIN rag.options
         THEN rag.options["matchThreshold"] ELSE DEFAULT_MATCH_THRESHOLD
    /\ rag.request.match_count =
         IF "matchCount" \in DOMAIN rag.options
         THEN rag.options["matchCount"] ELSE DEFAULT_MATCH_COUNT

\* C23: unless the engine is disposed, initSession ends, and ends with
\* loading false, whatever the probe and the profile load answer.
C23_InitializationLowersLoading ==
  <>(~mounted \/ (initPc = "done" /\ ~loading))

\* C23 witness: initSession has ended after a profile load that failed, the
\* engine is live and loading is false
C23_Witness ==
  /\ mounted /\ initPc = "done" /\ ~loading
  /\ session # Absent /\ error = "profileError" /\ hist.lastEvent = "OTHER"

\* C24: the step that processes an event other than SIGNED_IN with a user and
\* SIGNED_OUT stores the event's session and its user, ends with loading
\* false, issues no fetch and starts no timer, and leaves profile,
\* organization, error and the two guard flags as they were.
C24_OtherEventOnlyStoresSession ==
  [][\A e \in {"TOKEN_REFRESHED", "INITIAL_SESSION"} : \A s \in Sessions \cup {Absent} :
       OtherEvent(e, s) =>
         /\ session' = s /\ user' = UserOf(s)
         /\ loading' = FALSE
         /\ loads' = loads /\ timers' = timers
         /\ UNCHANGED <<profile, organization, error, loadingProfileRef,
                        signingUpRef>>]_vars

\* C24 witness: an event of this kind was processed while initSession awaited
\* its profile load: loading is false, the load is in flight and still holds
\* the guard
C24_Witness ==
  /\ hist.lastEvent = "OTHER" /\ initPc = "load" /\ ~loading
  /\ loadingProfileRef /\ loads # EmptyBag /\ mounted

C26_NotFoundClearsProfileSilently ==
  [][\A l \in BagToSet(loads) :
       ProfileNotFound(l) =>
         /\ profile' = Absent
         /\ organization' = Absent
         /\ error' = error
         /\ loads' = loads (-) SetToBag({l})
         /\ ~loadingProfileRef']_vars

\* C26 witness: a load started after SIGNED_IN has just ended without a
\* profile and without an error, for a principal that is present
C26_Witness ==
  /\ micro = <<"timer">> /\ loads = EmptyBag /\ user # Null
  /\ profile = Absent /\ organization = Absent /\ error = Null

\* C27: when the profiles fetch fails with an error other than not-found, the
\* load ends in that step with the error recorded in the error field and with
\* profile and organization absent, whatever they were before the load.
C27_FailureLeavesProfileAbsent ==
  [][\A l \in BagToSet(loads) :
       ProfileFailed(l) =>
         /\ error' = "profileError"
         /\ profile' = Absent
         /\ organization' = Absent]_vars

\* C28: when the organizations fetch of a load fails, the load ends in that
\* step with the profile it applied kept, the organization absent, whatever it
\* was before the load, and the error field as it was.
C28_OrgFailureLeavesOrganizationAbsent ==
  [][\A l \in BagToSet(loads) :
       OrgFailed(l) =>
         /\ profile' = profile
         /\ organization' = Absent
         /\ error' = error]_vars

\* the messages of the three tests callRagBrain makes before it builds a request
ValidationMessages ==
  {UnauthenticatedMessage, EmptyQueryMessage, EmptyVerticalMessage}

\* C29: a signUp call made while the signup flag is set returns the in-progress
\* error, and a callRagBrain invocation stopped by one of its three tests
\* returns that test's error; neither the call nor the return changes a field
\* of the snapshot or a guard flag.
C29_LocalErrorsLeaveStateAlone ==
  [][/\ \A email \in Emails :
          (signingUpRef /\ SignUp(email)) =>
            /\ ret'.error = [message |-> InProgressMessage]
            /\ ret'.data = Absent
            /\ UNCHANGED <<snapshot, refs>>
     /\ \A s \in Sessions \cup {Absent} :
          (rag.pc = "session" /\ RagSessionReturns(s) /\ rag'.pc = "done") =>
            /\ rag'.error # Absent /\ rag'.error.message \in ValidationMessages
            /\ rag'.data = Absent
            /\ UNCHANGED <<snapshot, refs>>
     /\ \A q \in Queries : \A v \in VerticalIds :
          CallRagBrain(q, v, <<>>) => UNCHANGED <<snapshot, refs>>]_vars

\* C29 witness: with a signUp call in flight and loading lowered by SIGNED_OUT,
\* a second signUp call has returned the in-progress error and a callRagBrain
\* invocation has returned the empty-query error
C29_Witness ==
  /\ signingUpRef /\ signups # <<>> /\ ~loading
  /\ ret.op = "signUp" /\ ret.error = [message |-> InProgressMessage]
  /\ rag.pc = "done" /\ rag.error = [message |-> EmptyQueryMessage]

\* C30: a refreshProfile call made while a principal is present issues a
\* profiles fetch for that principal, whether the guard is set or not, and
\* leaves the guard set; a call made while no principal is present issues no
\* fetch and changes no variable.
C30_RefreshAlwaysFetches ==
  [][RefreshProfile =>
       IF user # Null
       THEN /\ loads' = loads (+) SetToBag({[caller |-> "refresh", uid |-> user,
                                              pc |-> "profile", data |-> Absent]})
            /\ loadingProfileRef'
            /\ snapshot' = snapshot
       ELSE UNCHANGED vars]_vars

\* C30 witness: the initial load and a refreshProfile load for the same
\* principal are in flight together, and no SIGNED_IN event has reset the
\* guard the initial load set
C30_Witness ==
  /\ hist.signedIn = {} /\ user # Null /\ loadingProfileRef
  /\ \E l \in BagToSet(loads) : l.caller = "init" /\ l.uid = user
  /\ \E l \in BagToSet(loads) : l.caller = "refresh" /\ l.uid = user

\* C31: a failure of the provider or of the store ends inside the operation:
\* signIn, signInWithGoogle, resetPassword and updatePassword return the error
\* and record its message with loading lowered; signOut returns and records
\* it; signUp returns it and releases its flag; a failed profiles fetch records
\* it, releases the guard and lets the awaiting caller (initSession,
\* refreshProfile) resume; a failed session probe records it and ends
\* initialization.
C31_NoExceptionEscapes ==
  [][/\ \A i \in 1..Len(pending) : \A o \in ProviderOutcomes :
          (o.kind # "data" /\ ProviderCallReturns(i, o)) =>
            /\ ret'.op = pending[i]
            /\ ret'.error = [message |-> o.message] /\ ret'.data = Absent
            /\ error' = o.message /\ ~loading'
            /\ pending' = RemoveAt(pending, i)
     /\ SignOutReturns(FALSE) =>
          /\ ret'.op = "signOut" /\ ret'.error # Absent
          /\ error' # Null /\ ~loading'
          /\ signouts' = signouts - 1
     /\ \A i \in 1..Len(signups) : \A o \in CreateKinds :
          (o.kind # "data" /\ SignUpCreateReturns(i, o)) =>
            /\ ret'.op = "signUp" /\ ret'.error # Absent /\ ret'.data = Absent
            /\ ~signingUpRef' /\ ~loading'
            /\ signups' = RemoveAt(signups, i)
     /\ \A l \in BagToSet(loads) :
          ProfileFailed(l) =>
            /\ error' = "profileError" /\ ~loadingProfileRef'
            /\ micro' = Append(micro, l.caller)
            /\ loads' = loads (-) SetToBag({l})
     /\ InitProbeThrows =>
          /\ initPc' = "done"
          /\ mounted => (error' = "probeError" /\ ~loading')]_vars

\* C31 witness: updatePassword has returned the exception its provider call
\* threw, recorded in the error field, after the initial load ended without a
\* profile
C31_Witness ==
  /\ ret.op = "updatePassword" /\ ret.error = [message |-> "Failed to fetch"]
  /\ error = "Failed to fetch" /\ ~loading /\ pending = <<>>
  /\ initPc = "done" /\ user # Null /\ profile = Absent

\* C32: in every published snapshot isAuthenticated holds exactly when a
\* session is present, hasProfile exactly when a profile is present,
\* isOnboarded exactly when the profile is present and its business role is
\* neither null nor empty, and isOrgAdmin exactly when the profile is present
\* and its application role is org_admin or super_admin.
C32_DerivedFlagsFollowFields ==
  Published =>
    /\ isAuthenticated <=> session \in Sessions
    /\ hasProfile <=> profile \in UNION {StoreRows(u) : u \in Users}
    /\ isOnboarded <=> (profile # Absent /\ profile.business_role = "client")
    /\ isOrgAdmin <=> (profile # Absent
                         /\ profile.app_role \in {"org_admin", "super_admin"})

\* C32 witness: a snapshot with a session and a profile that has an empty
\* business role and the super_admin role: not onboarded, organization admin
C32_Witness ==
  /\ Published /\ session # Absent /\ profile # Absent
  /\ profile.business_role = "" /\ profile.app_role = "super_admin"
  /\ ~isOnboarded /\ isOrgAdmin /\ ~loading

\* C33: over every interleaving of initialization, events, timer firings and
\* refreshProfile calls, at most one profiles or organizations fetch of the
\* loader is in flight at any time.
C33_AtMostOneProfileFetch == BagCardinality(loads) <= 1

\* a load for principal u can have completed only if one was started: by
\* initSession once its probe has answered, or by the settling timer of a
\* SIGNED_IN event for u (refreshProfile aside)
LoadStarted(u) == initPc # "probe" \/ u \in hist.signedIn

\* C34: in every published snapshot with loading false and a session present,
\* a profile load for the session's principal has completed, and so has been
\* started.
C34_NotLoadingMeansProfileLoaded ==
  (Published /\ ~loading /\ session # Absent) => LoadStarted(session.user)

\* a step in which a signUp call returns the EMAIL_EXISTS error
ReturnsEmailExists ==
  /\ Len(signups') < Len(signups)
  /\ "code" \in DOMAIN ret'.error /\ ret'.error.code = "EMAIL_EXISTS"

\* C35: every signUp call that returns EMAIL_EXISTS leaves the snapshot the
\* pre-check path leaves: the EMAIL_EXISTS message in the error field, loading
\* lowered, and principal, session, profile and organization as they were,
\* whether the pre-check or the provider's error detected the duplicate.
C35_EmailExistsLeavesOneSnapshot ==
  [][ReturnsEmailExists =>
       /\ error' = EmailExistsMessage
       /\ ~loading'
       /\ UNCHANGED <<user, session, profile, organization>>]_vars

\* C36: when the provider's signOut call fails, signOut returns the error,
\* records its message in the error field, lowers loading and leaves
\* principal, session, profile and organization as they were; when it
\* succeeds, signOut returns no error and the four are null at its return.
C36_SignOutFailureKeepsSession ==
  [][/\ SignOutReturns(FALSE) =>
          /\ ret'.op = "signOut" /\ ret'.error # Absent
          /\ error' = ret'.error.message
          /\ ~loading'
          /\ UNCHANGED <<user, session, profile, organization>>
     /\ SignOutReturns(TRUE) =>
          /\ ret'.op = "signOut" /\ ret'.error = Absent
          /\ user' = Null /\ session' = Absent
          /\ profile' = Absent /\ organization' = Absent
          /\ ~loading']_vars

\* C36 witness: signOut has returned the provider's error; the session, the
\* profile and the organization loaded before are still in the snapshot
C36_Witness ==
  /\ ret.op = "signOut" /\ ret.error = [message |-> "signOutError"]
  /\ error = "signOutError" /\ ~loading /\ signouts = 0
  /\ session # Absent /\ user # Null /\ profile # Absent /\ organization # Absent

\* C37: ProtectedRoute renders its children exactly in the snapshots with
\* loading false and isAuthenticated, hasProfile and isOnboarded true, and
\* AdminRoute exactly when isOrgAdmin is true as well; in every other snapshot
\* each shows the loading screen, a redirect or the profile-missing screen.
C37_GuardsRenderChildrenOnlyWhenAllowed ==
  /\ ProtectedRoute = "children"
       <=> (~loading /\ isAuthenticated /\ hasProfile /\ isOnboarded)
  /\ AdminRoute = "children"
       <=> (~loading /\ isAuthenticated /\ hasProfile /\ isOnboarded /\ isOrgAdmin)
  /\ ProtectedRoute # "children" =>
       ProtectedRoute \in {"LoadingScreen", "/login", "ProfileErrorScreen", "/onboarding"}
  /\ AdminRoute # "children" =>
       AdminRoute \in {"LoadingScreen", "/login", "ProfileErrorScreen", "/onboarding",
                       "/dashboard"}

\* C37 witness: an onboarded user without an admin role: ProtectedRoute
\* renders its children, AdminRoute redirects to the dashboard
C37_Witness ==
  /\ Published /\ ~loading /\ session # Absent /\ profile # Absent
  /\ profile.business_role = "client" /\ profile.app_role = "user"
  /\ ProtectedRoute = "children" /\ AdminRoute = "/dashboard"

\* a step in which the Onboarding page navigates to the dashboard
Navigates == wizard.at = "/onboarding" /\ wizard'.at = "/dashboard"

\* C38: whenever the Onboarding page navigates to the dashboard, a role was
\* selected, completeOnboarding has succeeded, handleComplete was waiting for
\* refreshProfile, and the profile of the snapshot carries a business role.
C38_NavigatesOnlyWhenOnboarded ==
  [][Navigates =>
       /\ wizard.selectedRole # Null
       /\ wizard.completed
       /\ wizard.pc = "refresh"
       /\ isOnboarded']_vars

\* C39: once the list of verticals has been loaded with at least one entry,
\* the current vertical is one of the available verticals.
C39_CurrentVerticalIsAvailable ==
  vertical.loaded => vertical.currentVertical \in Range(vertical.availableVerticals)

====
